---- MODULE Spec2Model ----
(***************************************************************************)
(* Model of cloudpeak/smooth_hashtable: a hash map with incremental        *)
(* rehashing (hashmap.h) built on two fixed-capacity tables                *)
(* (fixed_hashmap.h) whose buckets are tree_list_trivial objects           *)
(* (tree_list.h): a singly linked list or a binary search tree with        *)
(* parent links.                                                           *)
(*                                                                         *)
(* Pointers are modelled as follows.  A list is the sequence of the data   *)
(* of its nodes, read from head_ along next; a list iterator is a position *)
(* in that sequence.  Tree nodes live in an arena `nodes` (node id -> node *)
(* record); a tree iterator is a node id.  Null is 0.                      *)
(*                                                                         *)
(* Undefined behaviour (remainder by zero, null dereference, reading a     *)
(* list node as a tree node) ends the modelled execution: the operation    *)
(* reports a fault instead of a result and the model makes no statement    *)
(* about what follows.                                                     *)
(***************************************************************************)
EXTENDS Integers, Sequences, FiniteSets, TLC

\* ------------------------------------------------------------------------
\* Bounds of the model (not program constants)
\* ------------------------------------------------------------------------
\* keys offered to the public operations are 0..MaxKey
MaxKey == 1
\* seeds of the hasher object handed to the constructor are 0..MaxSeed
MaxSeed == 0
\* the keys 0..MaxTableKey and the requests 1..MaxSteal of a caller that uses
\* one table directly
MaxTableKey == 2
MaxSteal == 2
\* the keys 0..MaxBucketKey of a caller that uses one bucket directly, and the
\* inserts it may make into a list from an empty bucket
MaxBucketKey == 2
MaxListInserts == 3

\* ------------------------------------------------------------------------
\* Program constants
\* ------------------------------------------------------------------------
k_num_items_to_steal == 1
k_max_steal_iterations == 300
k_treefy_size == 10
k_un_treefy_size == 3
k_shrink_min_buckets == 16

Null == 0
NoFault == "none"

\* the mapped values a caller passes, and Mapped() of std::string
Values == {"a", "b"}
DefaultMapped == ""

Pair(k, v) == [first |-> k, second |-> v]

Min(S) == CHOOSE x \in S : \A y \in S : x <= y

RemoveAt(s, i) == [j \in 1..(Len(s) - 1) |-> IF j < i THEN s[j] ELSE s[j + 1]]

\* the number of iterations of a long loop that are evaluated as one span
LoopSpan == 512

\* a local variable: auto r = v; then F(r), v being evaluated once
With(v, F(_)) == F(v)

\* ========================================================================
\* tree_list_base (buckets)
\* ========================================================================

\* a zero-filled bucket slot: k_linked_list = 0, head_ = nullptr, size_ = 0
EmptyBucket ==
  [ds_type_ |-> "k_linked_list", size_ |-> 0, head_ |-> <<>>,
   root_ |-> Null, nodes |-> [i \in {} |-> 0]]

\* ComparePairFirst
compare(a, b) == a.first < b.first

\* new rb_node_type(data): red, no links
rb_node_type(data) ==
  [left_ |-> Null, right_ |-> Null, parent_ |-> Null, color_ |-> "k_red", data_ |-> data]

NewNodeId(nodes) == Min((1..(Cardinality(DOMAIN nodes) + 1)) \ DOMAIN nodes)

WithNode(nodes, id, n) == [i \in (DOMAIN nodes) \cup {id} |-> IF i = id THEN n ELSE nodes[i]]

WithoutNode(nodes, id) == [i \in (DOMAIN nodes) \ {id} |-> nodes[i]]

RECURSIVE tree_insert_descend(_, _, _, _)
tree_insert_descend(nodes, x, y, zdata) ==
  IF x = Null THEN y
  ELSE tree_insert_descend(nodes,
         IF compare(zdata, nodes[x].data_) THEN nodes[x].left_ ELSE nodes[x].right_,
         x, zdata)

\* tree_insert_node applied to a fresh node z holding `data`; t = [root_, nodes]
tree_insert_node(t, data) ==
  With(NewNodeId(t.nodes), LAMBDA z :
  With(tree_insert_descend(t.nodes, t.root_, Null, data), LAMBDA y :
  With(WithNode(t.nodes, z, [rb_node_type(data) EXCEPT !.parent_ = y]), LAMBDA n1 :
    IF y = Null
    THEN [root_ |-> z, nodes |-> n1, node |-> z]
    ELSE IF compare(data, t.nodes[y].data_)
         THEN [root_ |-> t.root_, nodes |-> [n1 EXCEPT ![y].left_ = z], node |-> z]
         ELSE [root_ |-> t.root_, nodes |-> [n1 EXCEPT ![y].right_ = z], node |-> z])))

RECURSIVE walk_to_leftmost_minor(_, _)
walk_to_leftmost_minor(nodes, n) ==
  IF nodes[n].left_ # Null THEN walk_to_leftmost_minor(nodes, nodes[n].left_) ELSE n

RECURSIVE walk_up_from_right(_, _, _)
walk_up_from_right(nodes, node, parent) ==
  IF parent # Null /\ node = nodes[parent].right_
  THEN walk_up_from_right(nodes, parent, nodes[parent].parent_)
  ELSE parent

walk_to_next_node(nodes, n) ==
  IF nodes[n].right_ # Null
  THEN walk_to_leftmost_minor(nodes, nodes[n].right_)
  ELSE walk_up_from_right(nodes, n, nodes[n].parent_)

\* tree_successor (same walk, used by delete_node)
tree_successor(nodes, x) == walk_to_next_node(nodes, x)

\* the child of node n on side d ("left_" or "right_"), and the other side
Child(nodes, n, d) == IF d = "left_" THEN nodes[n].left_ ELSE nodes[n].right_
SetChild(nodes, n, d, c) ==
  IF d = "left_" THEN [nodes EXCEPT ![n].left_ = c] ELSE [nodes EXCEPT ![n].right_ = c]
Other(d) == IF d = "left_" THEN "right_" ELSE "left_"

\* left_rotate (d = "left_") and right_rotate (d = "right_") of the subtree at x
rotate(t, x, d) ==
  With(Child(t.nodes, x, Other(d)), LAMBDA y :
  With(Child(t.nodes, y, d), LAMBDA yc :
  With(t.nodes[x].parent_, LAMBDA xp :
  With(SetChild(t.nodes, x, Other(d), yc), LAMBDA n1 :
  With(IF yc # Null THEN [n1 EXCEPT ![yc].parent_ = x] ELSE n1, LAMBDA n2 :
  With([n2 EXCEPT ![y].parent_ = xp], LAMBDA n3 :
  With(IF xp = Null THEN n3
       ELSE IF x = n3[xp].left_ THEN [n3 EXCEPT ![xp].left_ = y]
            ELSE [n3 EXCEPT ![xp].right_ = y], LAMBDA n4 :
  With(SetChild(n4, y, d, x), LAMBDA n5 :
    [root_ |-> IF xp = Null THEN y ELSE t.root_,
     nodes |-> [n5 EXCEPT ![x].parent_ = y]]))))))))

left_rotate(t, x) == rotate(t, x, "left_")
right_rotate(t, y) == rotate(t, y, "right_")

IsBlackOrNull(nodes, n) == n = Null \/ nodes[n].color_ = "k_black"

\* delete_fixup, Case 1: a red sibling w is rotated above x_parent
delete_fixup_case1(t, x_parent, d, w) ==
  IF t.nodes[w].color_ = "k_red"
  THEN rotate([t EXCEPT !.nodes = [t.nodes EXCEPT ![w].color_ = "k_black",
                                                  ![x_parent].color_ = "k_red"]],
              x_parent, d)
  ELSE t

\* delete_fixup, Cases 3 and 4 (w has a red child); w's near child is
\* dereferenced without a null check in Case 3
delete_fixup_case34(t, x, x_parent, d, w) ==
  With(Child(t.nodes, w, d), LAMBDA near :
    IF IsBlackOrNull(t.nodes, Child(t.nodes, w, Other(d))) /\ near = Null
    THEN [fault |-> "null_deref", t |-> t, x |-> x, x_parent |-> x_parent]
    ELSE
  With(IF IsBlackOrNull(t.nodes, Child(t.nodes, w, Other(d)))
       THEN rotate([t EXCEPT !.nodes = [t.nodes EXCEPT ![near].color_ = "k_black",
                                                       ![w].color_ = "k_red"]],
                   w, Other(d))
       ELSE t, LAMBDA t3 :
  With(Child(t3.nodes, x_parent, Other(d)), LAMBDA w3 :
    IF w3 = Null
    THEN [fault |-> "null_deref", t |-> t3, x |-> x, x_parent |-> x_parent]
    ELSE
  With([t3.nodes EXCEPT ![w3].color_ = t3.nodes[x_parent].color_,
                        ![x_parent].color_ = "k_black"], LAMBDA n4 :
  With(Child(n4, w3, Other(d)), LAMBDA far :
  With(rotate([t3 EXCEPT !.nodes = IF far # Null
                                   THEN [n4 EXCEPT ![far].color_ = "k_black"] ELSE n4],
              x_parent, d), LAMBDA t4 :
    [fault |-> NoFault, t |-> t4, x |-> t4.root_,
     x_parent |-> t4.nodes[t4.root_].parent_]))))))

\* delete_fixup, after Case 1: Case 2 (both children of w black) or Cases 3, 4
delete_fixup_case2(t, x, x_parent, d) ==
  With(Child(t.nodes, x_parent, Other(d)), LAMBDA w :
    IF w = Null
    THEN [fault |-> "null_deref", t |-> t, x |-> x, x_parent |-> x_parent]
    ELSE IF IsBlackOrNull(t.nodes, Child(t.nodes, w, d))
            /\ IsBlackOrNull(t.nodes, Child(t.nodes, w, Other(d)))
    THEN [fault |-> NoFault,
          t |-> [t EXCEPT !.nodes = [t.nodes EXCEPT ![w].color_ = "k_red"]],
          x |-> x_parent, x_parent |-> t.nodes[x_parent].parent_]
    ELSE delete_fixup_case34(t, x, x_parent, d, w))

\* one pass of the loop of delete_fixup, x being the child of x_parent on side
\* d; the sibling w is dereferenced without a null check
delete_fixup_step(t, x, x_parent, d) ==
  With(Child(t.nodes, x_parent, Other(d)), LAMBDA w :
    IF w = Null
    THEN [fault |-> "null_deref", t |-> t, x |-> x, x_parent |-> x_parent]
    ELSE delete_fixup_case2(delete_fixup_case1(t, x_parent, d, w), x, x_parent, d))

\* delete_fixup(x, x_parent)
RECURSIVE delete_fixup(_, _, _)
delete_fixup(t, x, x_parent) ==
  IF ~(x # t.root_ /\ IsBlackOrNull(t.nodes, x))
  THEN [fault |-> NoFault, root_ |-> t.root_,
        nodes |-> IF x # Null THEN [t.nodes EXCEPT ![x].color_ = "k_black"] ELSE t.nodes]
  ELSE IF x_parent = Null
  THEN [fault |-> "null_deref", root_ |-> t.root_, nodes |-> t.nodes]
  ELSE With(delete_fixup_step(t, x, x_parent,
                   IF x = t.nodes[x_parent].left_ THEN "left_" ELSE "right_"), LAMBDA r :
         IF r.fault # NoFault
         THEN [fault |-> r.fault, root_ |-> r.t.root_, nodes |-> r.t.nodes]
         ELSE delete_fixup(r.t, r.x, r.x_parent))

\* delete_node(z), once the node y to unlink is known: y is z or, when z has
\* two children, its successor, whose data is then copied into z
delete_node_unlink(t, z, y) ==
  With(IF t.nodes[y].left_ # Null THEN t.nodes[y].left_ ELSE t.nodes[y].right_, LAMBDA x :
  With(t.nodes[y].parent_, LAMBDA yp :
  With(IF x # Null THEN [t.nodes EXCEPT ![x].parent_ = yp] ELSE t.nodes, LAMBDA n1 :
  With(IF yp = Null THEN n1
       ELSE IF y = n1[yp].left_ THEN [n1 EXCEPT ![yp].left_ = x]
            ELSE [n1 EXCEPT ![yp].right_ = x], LAMBDA n2 :
  With([root_ |-> IF yp = Null THEN x ELSE t.root_,
        nodes |-> IF y # z THEN [n2 EXCEPT ![z].data_ = n2[y].data_] ELSE n2], LAMBDA t3 :
  With(IF t.nodes[y].color_ = "k_black"
       THEN delete_fixup(t3, x, yp)
       ELSE [fault |-> NoFault, root_ |-> t3.root_, nodes |-> t3.nodes], LAMBDA f :
    [fault |-> f.fault, root_ |-> f.root_, nodes |-> WithoutNode(f.nodes, y),
     freed |-> y]))))))

delete_node(t, z) ==
  delete_node_unlink(t, z,
    IF t.nodes[z].left_ = Null \/ t.nodes[z].right_ = Null
    THEN z ELSE tree_successor(t.nodes, z))

\* nodes visited from `n` by repeated ++ until the null iterator
RECURSIVE TreeWalk(_, _)
TreeWalk(nodes, n) ==
  IF n = Null THEN <<>> ELSE <<n>> \o TreeWalk(nodes, walk_to_next_node(nodes, n))

\* begin() dereferences root_ in tree mode without a null check
tl_begin_faults(b) == b.ds_type_ = "k_red_black_tree" /\ b.root_ = Null

\* begin(): a list position (1 = head_) or a tree node id; Null = end()
tl_begin(b) ==
  IF b.ds_type_ = "k_red_black_tree"
  THEN walk_to_leftmost_minor(b.nodes, b.root_)
  ELSE IF Len(b.head_) = 0 THEN Null ELSE 1

\* the iterators visited by for (it = begin(); it != end(); ++it)
tl_iterate(b) ==
  IF b.ds_type_ = "k_red_black_tree"
  THEN TreeWalk(b.nodes, tl_begin(b))
  ELSE [i \in 1..Len(b.head_) |-> i]

\* operator* of an iterator
tl_deref(b, it) ==
  IF b.ds_type_ = "k_red_black_tree" THEN b.nodes[it].data_ ELSE b.head_[it]

tl_empty(b) == b.size_ = 0

\* mutant of list_insert: size_ is not incremented
list_insert_no_count(b, data) == [b EXCEPT !.head_ = <<data>> \o b.head_]

\* list_insert / list_emplace: the new node becomes head_
list_insert(b, data) ==
  [b EXCEPT !.head_ = <<data>> \o b.head_, !.size_ = b.size_ + 1]

\* the loop of treefy(): while (node != nullptr) { tree_insert_node(new
\* rb_node_type(node->data)); node = node->next; }  The loop state s holds the
\* tree built so far and the list cursor `node` (a position of head_).
RECURSIVE treefy_loop(_, _)
treefy_loop(s, list) ==
  IF s.node > Len(list) THEN s
  ELSE treefy_loop([tree_insert_node(s, list[s.node]) EXCEPT !.node = s.node + 1], list)

\* treefy(): every list node, from head_ on, is copied into a tree node
treefy(b) ==
  With(treefy_loop([root_ |-> Null, nodes |-> [i \in {} |-> 0], node |-> 1], b.head_),
       LAMBDA t :
    [b EXCEPT !.ds_type_ = "k_red_black_tree", !.head_ = <<>>,
              !.root_ = t.root_, !.nodes = t.nodes])

\* tree_insert / tree_emplace
tree_insert(b, data) ==
  With(tree_insert_node([root_ |-> b.root_, nodes |-> b.nodes], data), LAMBDA r :
    [b EXCEPT !.root_ = r.root_, !.nodes = r.nodes, !.size_ = b.size_ + 1])

\* traversal_un_treefy(node): the data of the subtree of node in the order in
\* which list_insert receives them (left subtree, right subtree, node)
RECURSIVE traversal_un_treefy(_, _)
traversal_un_treefy(nodes, node) ==
  (IF nodes[node].left_ # Null THEN traversal_un_treefy(nodes, nodes[node].left_) ELSE <<>>)
  \o (IF nodes[node].right_ # Null THEN traversal_un_treefy(nodes, nodes[node].right_)
      ELSE <<>>)
  \o <<nodes[node].data_>>

\* un_treefy() on a tree with a root: every node's data goes through
\* list_insert, which counts it in size_ once more, and the node is deleted;
\* ds_type_ is left as it was and root_ is left dangling (head_ and root_ are
\* one union member; the list is kept apart from root_ here)
un_treefy(b) ==
  With(traversal_un_treefy(b.nodes, b.root_), LAMBDA moved :
    [b EXCEPT !.head_ = [i \in 1..Len(moved) |-> moved[Len(moved) + 1 - i]],
              !.nodes = [i \in {} |-> 0],
              !.size_ = b.size_ + Len(moved)])

\* treefy_or_un_treefy() takes the un_treefy branch: traversal_un_treefy
\* dereferences a null root_ (size_ = 0), or list_insert stores through head_,
\* which is the same union member as root_, links the tree root as a list
\* node and leaves ds_type_ = tree over a chain of list nodes.
tl_un_treefy_taken(b) == b.ds_type_ = "k_red_black_tree" /\ b.size_ <= k_un_treefy_size

\* treefy_or_un_treefy(), the treefy branch and the branch that does nothing
treefy_or_un_treefy(b) ==
  IF b.ds_type_ = "k_linked_list" /\ b.size_ >= k_treefy_size THEN treefy(b) ELSE b

\* insert(P&&) / emplace(Args&&...), after treefy_or_un_treefy()
tl_insert_node(b, data) ==
  IF b.ds_type_ = "k_linked_list" THEN list_insert(b, data) ELSE tree_insert(b, data)

\* insert(P&&) / emplace(Args&&...)
tl_insert(b, data) ==
  IF tl_un_treefy_taken(b)
  THEN IF b.root_ = Null THEN [fault |-> "null_deref", b |-> b]
       ELSE [fault |-> "type_confusion", b |-> un_treefy(b)]
  ELSE [fault |-> NoFault, b |-> tl_insert_node(treefy_or_un_treefy(b), data)]

\* mutant of tl_erase: the end iterator is not tested for
tl_erase_counts_end(b, it) ==
  IF b.ds_type_ = "k_linked_list"
  THEN [fault |-> NoFault, it |-> Null,
        b |-> [b EXCEPT !.head_ = IF it = Null THEN b.head_ ELSE RemoveAt(b.head_, it),
                        !.size_ = b.size_ - 1]]
  ELSE IF it = Null THEN [fault |-> NoFault, it |-> Null, b |-> [b EXCEPT !.size_ = b.size_ - 1]]
  ELSE With(delete_node([root_ |-> b.root_, nodes |-> b.nodes], it), LAMBDA r :
         [fault |-> r.fault, it |-> it,
          b |-> [b EXCEPT !.root_ = r.root_, !.nodes = r.nodes, !.size_ = b.size_ - 1]])

\* erase(iterator): the iterator returned is the list node after the erased
\* one (now at the erased one's position), or, for a tree, the iterator passed
\* in, whatever delete_node did with the node it names
tl_erase(b, it) ==
  IF it = Null THEN [fault |-> NoFault, it |-> Null, b |-> b]
  ELSE IF b.ds_type_ = "k_linked_list"
       THEN [fault |-> NoFault,
             it |-> IF it < Len(b.head_) THEN it ELSE Null,
             b |-> [b EXCEPT !.head_ = RemoveAt(b.head_, it), !.size_ = b.size_ - 1]]
       ELSE With(delete_node([root_ |-> b.root_, nodes |-> b.nodes], it), LAMBDA r :
              [fault |-> r.fault, it |-> it,
               b |-> [b EXCEPT !.root_ = r.root_, !.nodes = r.nodes,
                               !.size_ = b.size_ - 1]])

\* list_search: the first list node whose data == data (a position), or Null
list_search(b, data) ==
  IF \E i \in 1..Len(b.head_) : b.head_[i] = data
  THEN Min({i \in 1..Len(b.head_) : b.head_[i] = data})
  ELSE Null

\* tree_search_normal(current, data)
RECURSIVE tree_search_normal(_, _, _)
tree_search_normal(nodes, current, data) ==
  IF current = Null THEN Null
  ELSE IF nodes[current].data_ = data THEN current
  ELSE tree_search_normal(nodes,
         IF compare(data, nodes[current].data_) THEN nodes[current].left_
         ELSE nodes[current].right_, data)

\* find(const T&)
tl_find(b, data) ==
  IF b.ds_type_ = "k_linked_list" THEN list_search(b, data)
  ELSE tree_search_normal(b.nodes, b.root_, data)

\* list_erase(const T&): the first node whose data == data is unlinked
list_erase(b, data) ==
  With(list_search(b, data), LAMBDA i :
    IF i = Null THEN b
    ELSE [b EXCEPT !.head_ = RemoveAt(b.head_, i), !.size_ = b.size_ - 1])

\* tree_erase(const T&)
tree_erase(b, data) ==
  With(tree_search_normal(b.nodes, b.root_, data), LAMBDA node :
    IF node = Null THEN [fault |-> NoFault, b |-> b]
    ELSE tl_erase(b, node))

\* the outcomes of tree_erase in list mode: root_ is head_ (one union
\* member), so tree_search reads a list node as an rb_node_type, past the end
\* of the smaller object; the read finds no match and the call returns, or
\* the call does not return
ListAsTreeOutcomes == {NoFault, "type_confusion"}

\* erase(const T&): in list mode list_erase is followed by tree_erase (there
\* is no else); with head_ = nullptr tree_search returns at once
tl_erase_key(b, data, outcome) ==
  IF b.ds_type_ = "k_linked_list"
  THEN With(list_erase(b, data), LAMBDA l :
         [fault |-> IF Len(l.head_) = 0 THEN NoFault ELSE outcome, b |-> l])
  ELSE With(tree_erase(b, data), LAMBDA r : [fault |-> r.fault, b |-> r.b])

\* clear(): clear_list(); clear_tree(); assert(size_ == 0)
tl_clear(b) ==
  LET left == IF b.ds_type_ = "k_linked_list"
              THEN b.size_ - Len(b.head_)
              ELSE b.size_ - Cardinality(DOMAIN b.nodes)
  IN [fault |-> IF left = 0 THEN NoFault ELSE "assert_failed", b |-> EmptyBucket]

\* the data stored in a bucket
tl_elements(b) ==
  IF b.ds_type_ = "k_linked_list"
  THEN {b.head_[i] : i \in 1..Len(b.head_)}
  ELSE {b.nodes[n].data_ : n \in DOMAIN b.nodes}

\* ========================================================================
\* fixed_hashmap (a table of fixed capacity)
\* ========================================================================

\* the hasher object: a callable with a seed; Hash() has seed 0
DefaultHash == 0
Hasher(seed, key) == key + seed

\* mmap_array<bucket_type>(size): zero-filled slots
mmap_array(size) == [size_ |-> size, data_ |-> [i \in 0..(size - 1) |-> EmptyBucket]]

\* fixed_hashmap(initial_size, hash)
fixed_hashmap(initial_size, hash) ==
  [table_ |-> mmap_array(initial_size), size_ |-> 0,
   hash_function_ |-> hash, stolen_bucket_ |-> initial_size - 1]

fh_empty(t) == t.size_ = 0
fh_size(t) == t.size_
get_bucket_count(t) == t.table_.size_

\* hash(key) = hash_function_(key) % table_.size(): remainder by zero when
\* the table has no buckets
fh_hash_faults(t) == t.table_.size_ = 0
fh_hash(t, key) == Hasher(t.hash_function_, key) % t.table_.size_

\* for (it = bucket.begin(); it != bucket.end(); ++it) if (it->first == key)
fh_scan(b, key) ==
  With(tl_iterate(b), LAMBDA its :
  With({i \in 1..Len(its) : tl_deref(b, its[i]).first = key}, LAMBDA hits :
    IF hits = {} THEN Null ELSE its[Min(hits)]))

\* the fault raised before the bucket scan of `key` can start, if any
fh_scan_fault(t, key) ==
  IF fh_hash_faults(t) THEN "div_by_zero"
  ELSE IF tl_begin_faults(t.table_.data_[fh_hash(t, key)]) THEN "null_deref"
  ELSE NoFault

fh_set_bucket(t, index, b) == [t EXCEPT !.table_.data_[index] = b]

\* insert(P&& kv) / emplace(...)
fh_insert(t, kv) ==
  With(fh_scan_fault(t, kv.first), LAMBDA f :
    IF f # NoFault THEN [fault |-> f, t |-> t, inserted |-> FALSE]
    ELSE
  With(fh_hash(t, kv.first), LAMBDA index :
    IF fh_scan(t.table_.data_[index], kv.first) # Null
    THEN [fault |-> NoFault, t |-> t, inserted |-> FALSE]
    ELSE
  With(tl_insert(t.table_.data_[index], kv), LAMBDA r :
    IF r.fault # NoFault
    THEN [fault |-> r.fault, t |-> fh_set_bucket(t, index, r.b), inserted |-> FALSE]
    ELSE [fault |-> NoFault,
          t |-> [fh_set_bucket(t, index, r.b) EXCEPT !.size_ = t.size_ + 1],
          inserted |-> TRUE])))

\* mutant of fh_erase: the element is unlinked but size_ is not decremented
fh_erase_keeps_size(t, key) ==
  With(fh_scan_fault(t, key), LAMBDA f :
    IF f # NoFault THEN [fault |-> f, t |-> t, num |-> 0]
    ELSE
  With(fh_hash(t, key), LAMBDA index :
  With(fh_scan(t.table_.data_[index], key), LAMBDA it :
    IF it = Null THEN [fault |-> NoFault, t |-> t, num |-> 0]
    ELSE
  With(tl_erase(t.table_.data_[index], it), LAMBDA r :
    IF r.fault # NoFault THEN [fault |-> r.fault, t |-> t, num |-> 0]
    ELSE [fault |-> NoFault, t |-> fh_set_bucket(t, index, r.b), num |-> 1]))))

\* erase(const Key&)
fh_erase(t, key) ==
  With(fh_scan_fault(t, key), LAMBDA f :
    IF f # NoFault THEN [fault |-> f, t |-> t, num |-> 0]
    ELSE
  With(fh_hash(t, key), LAMBDA index :
  With(fh_scan(t.table_.data_[index], key), LAMBDA it :
    IF it = Null THEN [fault |-> NoFault, t |-> t, num |-> 0]
    ELSE
  With(tl_erase(t.table_.data_[index], it), LAMBDA r :
    IF r.fault # NoFault THEN [fault |-> r.fault, t |-> t, num |-> 0]
    ELSE [fault |-> NoFault,
          t |-> [fh_set_bucket(t, index, r.b) EXCEPT !.size_ = t.size_ - 1],
          num |-> 1]))))

\* find(const Key&): end_ is set when the key is not in its bucket
fh_find(t, key) ==
  With(fh_scan_fault(t, key), LAMBDA f :
    IF f # NoFault THEN [fault |-> f, end_ |-> TRUE, data |-> Pair(key, DefaultMapped)]
    ELSE
  With(t.table_.data_[fh_hash(t, key)], LAMBDA bucket :
  With(fh_scan(bucket, key), LAMBDA it :
    IF it = Null
    THEN [fault |-> NoFault, end_ |-> TRUE, data |-> Pair(key, DefaultMapped)]
    ELSE [fault |-> NoFault, end_ |-> FALSE, data |-> tl_deref(bucket, it)])))

\* contains(const Key&)
fh_contains(t, key) ==
  With(fh_find(t, key), LAMBDA f : [fault |-> f.fault, found |-> ~f.end_])

\* Mapped& at(const Key&): inserts (key, Mapped()) on a miss
fh_at(t, key) ==
  With(fh_scan_fault(t, key), LAMBDA f :
    IF f # NoFault THEN [fault |-> f, t |-> t, value |-> DefaultMapped]
    ELSE
  With(fh_hash(t, key), LAMBDA index :
  With(fh_scan(t.table_.data_[index], key), LAMBDA it :
    IF it # Null
    THEN [fault |-> NoFault, t |-> t, value |-> tl_deref(t.table_.data_[index], it).second]
    ELSE
  With(tl_insert(t.table_.data_[index], Pair(key, DefaultMapped)), LAMBDA r :
    IF r.fault # NoFault
    THEN [fault |-> r.fault, t |-> fh_set_bucket(t, index, r.b), value |-> DefaultMapped]
    ELSE [fault |-> NoFault,
          t |-> [fh_set_bucket(t, index, r.b) EXCEPT !.size_ = t.size_ + 1],
          value |-> DefaultMapped]))))

\* const Mapped& at(const Key&) const: throws std::out_of_range on a miss
fh_at_const(t, key) ==
  With(fh_find(t, key), LAMBDA f :
    [fault |-> f.fault, thrown |-> f.fault = NoFault /\ f.end_, value |-> f.data.second])

\* clear(): clears every bucket, then releases the bucket array
fh_clear(t) ==
  LET bad == {i \in DOMAIN t.table_.data_ : tl_clear(t.table_.data_[i]).fault # NoFault}
  IN [fault |-> IF bad = {} THEN NoFault ELSE "assert_failed",
      t |-> [t EXCEPT !.table_ = [size_ |-> 0, data_ |-> [i \in {} |-> EmptyBucket]],
                      !.size_ = 0]]

\* the inner loop of steal_elements on one bucket:
\* while (num_to_steal > 0 && !bucket.empty()) { move *begin(); erase(begin()) }
RECURSIVE steal_from_bucket(_, _, _)
steal_from_bucket(b, num_to_steal, stolen) ==
  IF ~(num_to_steal > 0 /\ ~tl_empty(b))
  THEN [fault |-> NoFault, b |-> b, num_to_steal |-> num_to_steal, stolen |-> stolen]
  ELSE IF tl_begin_faults(b)
  THEN [fault |-> "null_deref", b |-> b, num_to_steal |-> num_to_steal, stolen |-> stolen]
  ELSE
  With(tl_begin(b), LAMBDA it :
    IF it = Null
    THEN [fault |-> "null_deref", b |-> b, num_to_steal |-> num_to_steal, stolen |-> stolen]
    ELSE
  With(tl_erase(b, it), LAMBDA r :
    IF r.fault # NoFault
    THEN [fault |-> r.fault, b |-> b, num_to_steal |-> num_to_steal, stolen |-> stolen]
    ELSE steal_from_bucket(r.b, num_to_steal - 1, Append(stolen, tl_deref(b, it)))))

\* one iteration of the outer loop of steal_elements, from the loop state
\* s = [fault, t, num_to_steal, stolen, break_, visits]; break_ is set when
\* the iteration leaves the loop by `break` (or by a fault); visits counts the
\* executions of `auto& bucket = table_[stolen_bucket_]`
steal_iteration(s, start_bucket) ==
  IF start_bucket - s.t.stolen_bucket_ > k_max_steal_iterations
  THEN [s EXCEPT !.break_ = TRUE]
  ELSE IF s.t.stolen_bucket_ >= s.t.table_.size_
  THEN [s EXCEPT !.fault = "out_of_bounds", !.break_ = TRUE]
  ELSE
  With(s.t.stolen_bucket_, LAMBDA sb :
  With(steal_from_bucket(s.t.table_.data_[sb], s.num_to_steal, s.stolen), LAMBDA r :
  With([fh_set_bucket(s.t, sb, r.b)
          EXCEPT !.size_ = s.t.size_ - (Len(r.stolen) - Len(s.stolen))], LAMBDA t1 :
    IF r.fault # NoFault
    THEN [fault |-> r.fault, t |-> t1, num_to_steal |-> r.num_to_steal,
          stolen |-> r.stolen, break_ |-> TRUE, visits |-> s.visits + 1]
    ELSE IF sb = 0
    THEN [fault |-> IF tl_empty(r.b) /\ t1.size_ # 0 THEN "assert_failed" ELSE NoFault,
          t |-> t1, num_to_steal |-> r.num_to_steal, stolen |-> r.stolen,
          break_ |-> TRUE, visits |-> s.visits + 1]
    ELSE [fault |-> NoFault,
          t |-> IF tl_empty(r.b) THEN [t1 EXCEPT !.stolen_bucket_ = sb - 1] ELSE t1,
          num_to_steal |-> r.num_to_steal, stolen |-> r.stolen, break_ |-> FALSE,
          visits |-> s.visits + 1])))

\* the outer loop of steal_elements is over: it was left by `break`, or its
\* condition num_to_steal > 0 && stolen_bucket_ >= 0 is false
steal_loop_over(s) == s.break_ \/ ~(s.num_to_steal > 0 /\ s.t.stolen_bucket_ >= 0)

\* the next n iterations of the outer loop (fewer when the loop ends before),
\* taken as two halves so that a long scan is evaluated without deep nesting
RECURSIVE steal_iterations(_, _, _)
steal_iterations(s, start_bucket, n) ==
  IF steal_loop_over(s) THEN s
  ELSE IF n = 1 THEN steal_iteration(s, start_bucket)
  ELSE steal_iterations(steal_iterations(s, start_bucket, n \div 2),
                        start_bucket, n - (n \div 2))

\* the outer loop of steal_elements:
\* while (num_to_steal > 0 && stolen_bucket_ >= 0) { ... }
RECURSIVE steal_loop(_, _)
steal_loop(s, start_bucket) ==
  IF steal_loop_over(s) THEN s
  ELSE steal_loop(steal_iterations(s, start_bucket, LoopSpan), start_bucket)

\* steal_elements(num_to_steal): [fault, t, stolen, visits]
steal_elements(t, num_to_steal) ==
  With(steal_loop([fault |-> NoFault, t |-> t, num_to_steal |-> num_to_steal,
                   stolen |-> <<>>, break_ |-> FALSE, visits |-> 0],
                  t.stolen_bucket_), LAMBDA s :
    [fault |-> s.fault, t |-> s.t, stolen |-> s.stolen, visits |-> s.visits])

\* the elements stored in a table, and the keys bound in it
fh_elements(t) == UNION {tl_elements(t.table_.data_[i]) : i \in DOMAIN t.table_.data_}
fh_keys(t) == {e.first : e \in fh_elements(t)}

\* ------------------------------------------------------------------------
\* Iterators.  A bucket iterator is a list position or a tree node id (Null at
\* end()).  A table iterator is [table, end_, index_, bucket_it_]: `table`
\* names the fixed_hashmap object whose nodes it points into ("current_" or
\* "old_"), so that two bucket iterators are the same pointer only when they
\* agree on table, bucket index and slot.
\* ------------------------------------------------------------------------

\* iterator_base::increment
tl_increment(b, it) ==
  IF b.ds_type_ = "k_linked_list"
  THEN (IF it < Len(b.head_) THEN it + 1 ELSE Null)
  ELSE walk_to_next_node(b.nodes, it)

\* fixed_hashmap::end(): iterator(&table_, bucket_type::iterator(nullptr), 0, true)
fh_end(table) == [table |-> table, end_ |-> TRUE, index_ |-> 0, bucket_it_ |-> Null]

\* the first bucket index >= from whose bucket is not empty(), or -1
fh_next_bucket(t, from) ==
  IF \E i \in from..(t.table_.size_ - 1) : ~tl_empty(t.table_.data_[i])
  THEN Min({i \in from..(t.table_.size_ - 1) : ~tl_empty(t.table_.data_[i])})
  ELSE -1

\* the iterator at begin() of bucket `index`: [fault, it]
fh_iterator_at(t, table, index) ==
  IF index < 0 THEN [fault |-> NoFault, it |-> fh_end(table)]
  ELSE IF tl_begin_faults(t.table_.data_[index])
  THEN [fault |-> "null_deref", it |-> fh_end(table)]
  ELSE [fault |-> NoFault,
        it |-> [table |-> table, end_ |-> FALSE, index_ |-> index,
                bucket_it_ |-> tl_begin(t.table_.data_[index])]]

\* fixed_hashmap::begin(): [fault, it]
fh_begin(t, table) == fh_iterator_at(t, table, fh_next_bucket(t, 0))

\* fixed_map_iterator_base::increase(): [fault, it]; ++ on an end iterator throws
fh_increase(t, it) ==
  IF it.end_ THEN [fault |-> "out_of_range", it |-> it]
  ELSE With(tl_increment(t.table_.data_[it.index_], it.bucket_it_), LAMBDA n :
    IF n # Null THEN [fault |-> NoFault, it |-> [it EXCEPT !.bucket_it_ = n]]
    ELSE With(fh_next_bucket(t, it.index_ + 1), LAMBDA j :
      IF j < 0
      THEN [fault |-> NoFault,
            it |-> [it EXCEPT !.end_ = TRUE, !.index_ = t.table_.size_, !.bucket_it_ = Null]]
      ELSE fh_iterator_at(t, it.table, j)))

\* fixed_map_iterator_base::operator==
fh_iterator_eq(a, b) ==
  IF a.end_ /\ b.end_ THEN TRUE
  ELSE IF a.end_ \/ b.end_ THEN FALSE
  ELSE (a.table = b.table /\ a.bucket_it_ = b.bucket_it_) /\ a.index_ = b.index_

\* fixed_map_iterator_base::operator*
fh_iterator_deref(t, it) == tl_deref(t.table_.data_[it.index_], it.bucket_it_)

\* the iterator `it` into bucket `index` after the list node at position
\* `erased` of that bucket was unlinked: a list node keeps its identity and
\* moves one position up; a tree node id stays what it was
fh_iterator_after_unlink(t, it, index, erased) ==
  IF ~it.end_ /\ it.index_ = index /\ t.table_.data_[index].ds_type_ = "k_linked_list"
     /\ it.bucket_it_ > erased
  THEN [it EXCEPT !.bucket_it_ = it.bucket_it_ - 1]
  ELSE it

\* fixed_hashmap::erase(iterator&): next_it is taken before the bucket erases
\* the node; an end iterator throws std::out_of_range
fh_erase_iterator(t, it) ==
  IF it.end_ THEN [fault |-> NoFault, thrown |-> TRUE, t |-> t, it |-> it]
  ELSE
  With(fh_increase(t, it), LAMBDA next_it :
    IF next_it.fault # NoFault
    THEN [fault |-> next_it.fault, thrown |-> FALSE, t |-> t, it |-> it]
    ELSE
  With(tl_erase(t.table_.data_[it.index_], it.bucket_it_), LAMBDA r :
    [fault |-> r.fault, thrown |-> FALSE,
     t |-> IF r.fault # NoFault THEN t
           ELSE [fh_set_bucket(t, it.index_, r.b) EXCEPT !.size_ = t.size_ - 1],
     it |-> fh_iterator_after_unlink(t, next_it.it, it.index_, it.bucket_it_)]))

\* fixed_hashmap::find(const Key&) as an iterator: [fault, it]
fh_find_iterator(t, table, key) ==
  With(fh_scan_fault(t, key), LAMBDA f :
    IF f # NoFault THEN [fault |-> f, it |-> fh_end(table)]
    ELSE
  With(fh_hash(t, key), LAMBDA index :
  With(fh_scan(t.table_.data_[index], key), LAMBDA bit :
    [fault |-> NoFault,
     it |-> [table |-> table, end_ |-> bit = Null, index_ |-> index, bucket_it_ |-> bit]])))

\* ========================================================================
\* hashmap (two tables and the rehashing flag)
\* ========================================================================

\* hashmap(initial_size, hash)
hashmap(initial_size, hash) ==
  [current_ |-> fixed_hashmap(initial_size, hash),
   old_ |-> fixed_hashmap(initial_size, hash),
   rehashing_ |-> FALSE]

\* on_rehashing_finished(): old_ = fixed_hashmap(1)
on_rehashing_finished(m) == [m EXCEPT !.old_ = fixed_hashmap(1, DefaultHash)]

\* for (auto& element : elements) current_.insert(std::move(element))
RECURSIVE insert_all(_, _, _)
insert_all(t, elements, i) ==
  IF i > Len(elements) THEN [fault |-> NoFault, t |-> t]
  ELSE With(fh_insert(t, elements[i]), LAMBDA r :
         IF r.fault # NoFault THEN [fault |-> r.fault, t |-> r.t]
         ELSE insert_all(r.t, elements, i + 1))

\* mutant of move_progressively: the migration step is left out
move_progressively_none(m) == [fault |-> NoFault, m |-> m]

\* mutant of move_progressively: a step steals two elements
move_progressively_two(m) ==
  IF ~m.rehashing_ THEN [fault |-> NoFault, m |-> m]
  ELSE
  With(steal_elements(m.old_, 2), LAMBDA s :
    IF s.fault # NoFault THEN [fault |-> s.fault, m |-> [m EXCEPT !.old_ = s.t]]
    ELSE IF Len(s.stolen) = 0 /\ fh_empty(s.t)
    THEN [fault |-> NoFault,
          m |-> on_rehashing_finished([m EXCEPT !.old_ = s.t, !.rehashing_ = FALSE])]
    ELSE
  With(insert_all(m.current_, s.stolen, 1), LAMBDA ins :
    [fault |-> ins.fault, m |-> [m EXCEPT !.old_ = s.t, !.current_ = ins.t]]))

\* move_progressively(): one migration step
move_progressively(m) ==
  IF ~m.rehashing_ THEN [fault |-> NoFault, m |-> m]
  ELSE
  With(steal_elements(m.old_, k_num_items_to_steal), LAMBDA s :
    IF s.fault # NoFault THEN [fault |-> s.fault, m |-> [m EXCEPT !.old_ = s.t]]
    ELSE IF Len(s.stolen) = 0 /\ fh_empty(s.t)
    THEN [fault |-> NoFault,
          m |-> on_rehashing_finished([m EXCEPT !.old_ = s.t, !.rehashing_ = FALSE])]
    ELSE
  With(insert_all(m.current_, s.stolen, 1), LAMBDA ins :
    [fault |-> ins.fault, m |-> [m EXCEPT !.old_ = s.t, !.current_ = ins.t]]))

\* mutant of rehash: rehashing_ is left as it was
rehash_keeps_flag(m, new_size) ==
  IF ~fh_empty(m.old_) THEN [fault |-> "assert_failed", m |-> m]
  ELSE [fault |-> NoFault,
        m |-> [current_ |-> fixed_hashmap(new_size, DefaultHash),
               old_ |-> m.current_,
               rehashing_ |-> m.rehashing_]]

\* mutant of rehash: old_.swap(current_) is left out
rehash_without_swap(m, new_size) ==
  IF ~fh_empty(m.old_) THEN [fault |-> "assert_failed", m |-> m]
  ELSE [fault |-> NoFault,
        m |-> [current_ |-> m.current_,
               old_ |-> fixed_hashmap(new_size, DefaultHash),
               rehashing_ |-> TRUE]]

\* rehash(new_size): assert(old_.empty()); old_ = fixed_hashmap(new_size);
\* old_.swap(current_); rehashing_ = true
rehash(m, new_size) ==
  IF ~fh_empty(m.old_) THEN [fault |-> "assert_failed", m |-> m]
  ELSE [fault |-> NoFault,
        m |-> [current_ |-> fixed_hashmap(new_size, DefaultHash),
               old_ |-> m.current_,
               rehashing_ |-> TRUE]]

\* mutant of maybe_rehash: the test of rehashing_ is left out
maybe_rehash_while_rehashing(m) ==
  LET map_size == fh_size(m.current_)
      bucket_size == get_bucket_count(m.current_)
  IN IF map_size * 4 >= bucket_size * 3 THEN rehash(m, bucket_size * 2)
     ELSE IF bucket_size > map_size * 4 /\ bucket_size > k_shrink_min_buckets
     THEN rehash(m, map_size * 3)
     ELSE [fault |-> NoFault, m |-> m]

\* mutant of maybe_rehash: a table of 16 buckets or fewer is shrunk as well
maybe_rehash_no_minimum(m) ==
  IF m.rehashing_ THEN [fault |-> NoFault, m |-> m]
  ELSE LET map_size == fh_size(m.current_)
           bucket_size == get_bucket_count(m.current_)
       IN IF map_size * 4 >= bucket_size * 3 THEN rehash(m, bucket_size * 2)
          ELSE IF bucket_size > map_size * 4
          THEN rehash(m, map_size * 3)
          ELSE [fault |-> NoFault, m |-> m]

\* maybe_rehash(): the load-factor policy, run by ~maybe_rehash_guard
maybe_rehash(m) ==
  IF m.rehashing_ THEN [fault |-> NoFault, m |-> m]
  ELSE LET map_size == fh_size(m.current_)
           bucket_size == get_bucket_count(m.current_)
       IN IF map_size * 4 >= bucket_size * 3 THEN rehash(m, bucket_size * 2)
          ELSE IF bucket_size > map_size * 4 /\ bucket_size > k_shrink_min_buckets
          THEN rehash(m, map_size * 3)
          ELSE [fault |-> NoFault, m |-> m]

\* the destructor of maybe_rehash_guard, applied to the result r of an
\* operation body
guarded(r) ==
  IF r.fault # NoFault THEN r
  ELSE With(maybe_rehash(r.m), LAMBDA g : [r EXCEPT !.m = g.m, !.fault = g.fault])

\* mutant of hm_insert_body: old_ is not probed before inserting into current_
hm_insert_body_no_old_probe(m, kv) ==
  With(fh_insert(m.current_, kv), LAMBDA c :
    [fault |-> c.fault, m |-> [m EXCEPT !.current_ = c.t], inserted |-> c.inserted])

\* mutant of hm_insert_body: while rehashing, a new key is inserted into old_
hm_insert_body_into_old(m, kv) ==
  With(IF m.rehashing_ THEN fh_find(m.old_, kv.first)
       ELSE [fault |-> NoFault, end_ |-> TRUE, data |-> kv], LAMBDA it_old :
    IF it_old.fault # NoFault THEN [fault |-> it_old.fault, m |-> m, inserted |-> FALSE]
    ELSE IF ~it_old.end_ THEN [fault |-> NoFault, m |-> m, inserted |-> FALSE]
    ELSE IF m.rehashing_
    THEN With(fh_insert(m.old_, kv), LAMBDA c :
           [fault |-> c.fault, m |-> [m EXCEPT !.old_ = c.t], inserted |-> c.inserted])
    ELSE
  With(fh_insert(m.current_, kv), LAMBDA c :
    [fault |-> c.fault, m |-> [m EXCEPT !.current_ = c.t], inserted |-> c.inserted]))

\* insert(value_type&&) / insert(P&&) / emplace(P&&), after the migration step
hm_insert_body(m, kv) ==
  With(IF m.rehashing_ THEN fh_find(m.old_, kv.first)
       ELSE [fault |-> NoFault, end_ |-> TRUE, data |-> kv], LAMBDA it_old :
    IF it_old.fault # NoFault THEN [fault |-> it_old.fault, m |-> m, inserted |-> FALSE]
    ELSE IF ~it_old.end_ THEN [fault |-> NoFault, m |-> m, inserted |-> FALSE]
    ELSE
  With(fh_insert(m.current_, kv), LAMBDA c :
    [fault |-> c.fault, m |-> [m EXCEPT !.current_ = c.t], inserted |-> c.inserted]))

hm_insert(m, kv) ==
  With(move_progressively(m), LAMBDA mp :
    IF mp.fault # NoFault THEN [fault |-> mp.fault, m |-> mp.m, inserted |-> FALSE]
    ELSE guarded(hm_insert_body(mp.m, kv)))

\* Mapped& at(const Key&) / operator[], after the migration step
hm_at_body(m, key) ==
  With(IF m.rehashing_ THEN fh_find(m.old_, key)
       ELSE [fault |-> NoFault, end_ |-> TRUE, data |-> Pair(key, DefaultMapped)],
       LAMBDA it_old :
    IF it_old.fault # NoFault
    THEN [fault |-> it_old.fault, m |-> m, value |-> DefaultMapped]
    ELSE IF ~it_old.end_ THEN [fault |-> NoFault, m |-> m, value |-> it_old.data.second]
    ELSE
  With(fh_at(m.current_, key), LAMBDA c :
    [fault |-> c.fault, m |-> [m EXCEPT !.current_ = c.t], value |-> c.value]))

hm_at(m, key) ==
  With(move_progressively(m), LAMBDA mp :
    IF mp.fault # NoFault THEN [fault |-> mp.fault, m |-> mp.m, value |-> DefaultMapped]
    ELSE guarded(hm_at_body(mp.m, key)))

\* const Mapped& at(const Key&) const: no migration step, no guard
hm_at_const(m, key) ==
  With(IF m.rehashing_ THEN fh_find(m.old_, key)
       ELSE [fault |-> NoFault, end_ |-> TRUE, data |-> Pair(key, DefaultMapped)],
       LAMBDA it_old :
    IF it_old.fault # NoFault
    THEN [fault |-> it_old.fault, thrown |-> FALSE, value |-> DefaultMapped]
    ELSE IF ~it_old.end_
    THEN [fault |-> NoFault, thrown |-> FALSE, value |-> it_old.data.second]
    ELSE fh_at_const(m.current_, key))

\* erase(const Key&), after the migration step
hm_erase_body(m, key) ==
  With(fh_erase(m.current_, key), LAMBDA e1 :
    IF e1.fault # NoFault THEN [fault |-> e1.fault, m |-> m, num |-> 0]
    ELSE IF ~m.rehashing_
    THEN [fault |-> NoFault, m |-> [m EXCEPT !.current_ = e1.t], num |-> e1.num]
    ELSE
  With(fh_erase(m.old_, key), LAMBDA e2 :
    IF e2.fault # NoFault
    THEN [fault |-> e2.fault, m |-> [m EXCEPT !.current_ = e1.t], num |-> 0]
    ELSE
  With(maybe_rehash([m EXCEPT !.current_ = e1.t, !.old_ = e2.t]), LAMBDA inner :
    [fault |-> inner.fault, m |-> inner.m,
     num |-> IF e1.num >= e2.num THEN e1.num ELSE e2.num])))

hm_erase(m, key) ==
  With(move_progressively(m), LAMBDA mp :
    IF mp.fault # NoFault THEN [fault |-> mp.fault, m |-> mp.m, num |-> 0]
    ELSE guarded(hm_erase_body(mp.m, key)))

\* iterator find(const Key&): the idle branch builds an iterator and drops it
\* (there is no return), so the two-table probe runs in every state
hm_find(m, key) ==
  With(IF m.rehashing_ THEN NoFault ELSE fh_find(m.current_, key).fault, LAMBDA idle :
    IF idle # NoFault
    THEN [fault |-> idle, end_ |-> TRUE, data |-> Pair(key, DefaultMapped)]
    ELSE
  With(fh_size(m.current_) > fh_size(m.old_), LAMBDA current_is_larger :
  With(fh_find(IF current_is_larger THEN m.current_ ELSE m.old_, key), LAMBDA f1 :
    IF f1.fault # NoFault \/ ~f1.end_ THEN f1
    ELSE
  With(fh_find(IF current_is_larger THEN m.old_ ELSE m.current_, key), LAMBDA f2 :
    IF f2.fault # NoFault \/ ~f2.end_ THEN f2
    ELSE [fault |-> NoFault, end_ |-> TRUE, data |-> Pair(key, DefaultMapped)]))))

\* contains(const Key&): current_.contains(key) || old_.contains(key)
hm_contains(m, key) ==
  With(fh_contains(m.current_, key), LAMBDA c :
    IF c.fault # NoFault \/ c.found THEN c ELSE fh_contains(m.old_, key))

\* size()
hm_size(m) == fh_size(m.current_) + fh_size(m.old_)

\* mutant of hm_clear: the rehashing flag is left as it was
hm_clear_keeps_rehashing(m) ==
  With(fh_clear(m.current_), LAMBDA c :
  With(fh_clear(m.old_), LAMBDA o :
    [fault |-> IF c.fault # NoFault THEN c.fault ELSE o.fault,
     m |-> [current_ |-> c.t, old_ |-> o.t, rehashing_ |-> m.rehashing_]]))

\* clear()
hm_clear(m) ==
  With(fh_clear(m.current_), LAMBDA c :
  With(fh_clear(m.old_), LAMBDA o :
    [fault |-> IF c.fault # NoFault THEN c.fault ELSE o.fault,
     m |-> [current_ |-> c.t, old_ |-> o.t, rehashing_ |-> FALSE]]))

\* ------------------------------------------------------------------------
\* hashmap iterators: [which_, it_, end_], it_ being a table iterator
\* ------------------------------------------------------------------------

\* hashmap_iterator_base(current, old, which, it, end): the member
\* initialiser is which_(0), whatever `which` is
hashmap_iterator_base(which, it, end) == [which_ |-> 0, it_ |-> it, end_ |-> end]

\* new_iterator(which, it, end)
new_iterator(which, it, end) == hashmap_iterator_base(which, it, end)

\* the table a table iterator points into
table_of(m, it) == IF it.table = "current_" THEN m.current_ ELSE m.old_

\* end(): iterator(&current_, &old_, k_iter_end), with it_ = current->end()
hm_end(m) == [which_ |-> 0, it_ |-> fh_end("current_"), end_ |-> TRUE]

\* begin(): [fault, it]
hm_begin(m) ==
  With(fh_begin(m.current_, "current_"), LAMBDA c :
    IF c.fault # NoFault THEN [fault |-> c.fault, it |-> hm_end(m)]
    ELSE IF ~fh_iterator_eq(c.it, fh_end("current_"))
    THEN [fault |-> NoFault, it |-> new_iterator(0, c.it, FALSE)]
    ELSE
  With(fh_begin(m.old_, "old_"), LAMBDA o :
    IF o.fault # NoFault THEN [fault |-> o.fault, it |-> hm_end(m)]
    ELSE IF fh_iterator_eq(o.it, fh_end("old_"))
    THEN [fault |-> NoFault, it |-> new_iterator(0, o.it, TRUE)]
    ELSE [fault |-> NoFault, it |-> new_iterator(1, o.it, FALSE)]))

\* hashmap_iterator_base::increase(): [fault, it]
hm_increase(m, it) ==
  IF it.end_ THEN [fault |-> "out_of_range", it |-> it]
  ELSE
  With(fh_increase(table_of(m, it.it_), it.it_), LAMBDA n :
    IF n.fault # NoFault THEN [fault |-> n.fault, it |-> it]
    ELSE IF it.which_ = 0
    THEN IF ~fh_iterator_eq(n.it, fh_end("current_"))
         THEN [fault |-> NoFault, it |-> [it EXCEPT !.it_ = n.it]]
         ELSE With(fh_begin(m.old_, "old_"), LAMBDA o :
                IF o.fault # NoFault THEN [fault |-> o.fault, it |-> it]
                ELSE IF fh_iterator_eq(o.it, fh_end("old_"))
                THEN [fault |-> NoFault, it |-> [which_ |-> 0, it_ |-> o.it, end_ |-> TRUE]]
                ELSE [fault |-> NoFault, it |-> [which_ |-> 1, it_ |-> o.it, end_ |-> FALSE]])
    ELSE IF ~fh_iterator_eq(n.it, fh_end("old_"))
         THEN [fault |-> NoFault, it |-> [it EXCEPT !.it_ = n.it]]
         ELSE [fault |-> NoFault, it |-> [which_ |-> 0, it_ |-> n.it, end_ |-> TRUE]])

\* hashmap_iterator_base::operator==: the last line returns it_ != other.it_
hm_iterator_eq(a, b) ==
  IF a.end_ /\ b.end_ THEN TRUE
  ELSE IF a.end_ \/ b.end_ THEN FALSE
  ELSE IF a.which_ # b.which_ THEN FALSE
  ELSE ~fh_iterator_eq(a.it_, b.it_)

\* hashmap_iterator_base::operator*
hm_iterator_deref(m, it) == fh_iterator_deref(table_of(m, it.it_), it.it_)

\* the body of for (auto it = begin(); it != end(); ++it) visit(*it), on the
\* loop state s = [fault, it, visited]
hm_iterate_body(m, s) ==
  With(hm_increase(m, s.it), LAMBDA n :
    [fault |-> n.fault, it |-> n.it,
     visited |-> Append(s.visited, hm_iterator_deref(m, s.it))])

RECURSIVE hm_iterate_loop(_, _)
hm_iterate_loop(m, s) ==
  IF s.fault # NoFault \/ hm_iterator_eq(s.it, hm_end(m)) THEN s
  ELSE hm_iterate_loop(m, hm_iterate_body(m, s))

\* for (auto it = begin(); it != end(); ++it) visit(*it): [fault, visited]
hm_iterate(m) ==
  With(hm_begin(m), LAMBDA b :
  With(hm_iterate_loop(m, [fault |-> b.fault, it |-> b.it, visited |-> <<>>]), LAMBDA s :
    [fault |-> s.fault, visited |-> s.visited]))

\* iterator find(const Key&) as an iterator: [fault, it]
hm_find_iterator(m, key) ==
  With(IF m.rehashing_ THEN NoFault ELSE fh_find(m.current_, key).fault, LAMBDA idle :
    IF idle # NoFault THEN [fault |-> idle, it |-> hm_end(m)]
    ELSE
  With(fh_size(m.current_) > fh_size(m.old_), LAMBDA current_is_larger :
  With(IF current_is_larger THEN "current_" ELSE "old_", LAMBDA larger :
  With(IF current_is_larger THEN "old_" ELSE "current_", LAMBDA smaller :
  With(IF current_is_larger THEN 0 ELSE 1, LAMBDA larger_index :
  With(fh_find_iterator(IF current_is_larger THEN m.current_ ELSE m.old_, larger, key),
       LAMBDA f1 :
    IF f1.fault # NoFault THEN [fault |-> f1.fault, it |-> hm_end(m)]
    ELSE IF ~fh_iterator_eq(f1.it, fh_end(larger))
    THEN [fault |-> NoFault, it |-> new_iterator(larger_index, f1.it, FALSE)]
    ELSE
  With(fh_find_iterator(IF current_is_larger THEN m.old_ ELSE m.current_, smaller, key),
       LAMBDA f2 :
    IF f2.fault # NoFault THEN [fault |-> f2.fault, it |-> hm_end(m)]
    ELSE IF ~fh_iterator_eq(f2.it, fh_end(smaller))
    THEN [fault |-> NoFault, it |-> new_iterator(1 - larger_index, f2.it, FALSE)]
    ELSE [fault |-> NoFault, it |-> new_iterator(0, fh_end("current_"), TRUE)])))))))

\* ========================================================================
\* The program: a caller applying public operations to one hashmap, with a
\* reference map (key -> value) run side by side
\* ========================================================================

VARIABLES
  map,     \* the hashmap object
  fault,   \* NoFault, or the undefined behaviour / failed assertion that ended the run
  last,    \* the last public call: operation, arguments, result, and the map before it
  model,   \* the reference map: key -> bound value, or Absent
  keys,    \* the keys the caller uses
  script,  \* the inserts the caller makes first, in order
  table,   \* a fixed_hashmap object used on its own, as in the table's tests
  bucket   \* a tree_list object used on its own, as in the bucket's tests

vars == <<map, fault, last, model, keys, script, table, bucket>>

Absent == "absent"

\* the capacities handed to the constructor (2 as in the Rehashing test, and
\* one above the shrink limit of 16 buckets)
InitialSizes == {2, 20}

Keys == 0..MaxKey
Seeds == 0..MaxSeed

NoCall ==
  [op |-> "none", key |-> 0, value |-> DefaultMapped, inserted |-> FALSE, num |-> 0,
   thrown |-> FALSE, found |-> FALSE, data |-> Pair(0, DefaultMapped), size |-> 0,
   visited |-> <<>>, key2 |-> 0, equal |-> FALSE, stolen |-> <<>>, visits |-> 0,
   it |-> Null]

Call(op, key, pre) == [NoCall EXCEPT !.op = op, !.key = key] @@ [pre |-> pre]

Init ==
  /\ keys = Keys
  /\ \E initial_size \in InitialSizes, seed \in Seeds : map = hashmap(initial_size, seed)
  /\ fault = NoFault
  /\ model = [k \in Keys |-> Absent]
  /\ last = Call("none", 0, map)
  /\ script = <<>>
  /\ table = fixed_hashmap(1, DefaultHash)
  /\ bucket = EmptyBucket

\* what a call leaves behind: the new map, the fault, the record of the call
\* and the reference map (updated only when the call returns)
Finish(r, m, call, newmodel) ==
  /\ fault' = r.fault
  /\ map' = IF r.fault = NoFault THEN m ELSE map
  /\ last' = call
  /\ model' = IF r.fault = NoFault THEN newmodel ELSE model
  /\ UNCHANGED <<keys, table, bucket>>

\* the map a mutating call (insert, at, erase) has built when its body ends
\* and the destructor of its maybe_rehash_guard is about to run
before_guard(m, op, key, value) ==
  With(move_progressively(m), LAMBDA mp :
    IF mp.fault # NoFault THEN mp.m
    ELSE IF op = "insert" THEN hm_insert_body(mp.m, Pair(key, value)).m
    ELSE IF op = "at" THEN hm_at_body(mp.m, key).m
    ELSE hm_erase_body(mp.m, key).m)

\* mutant of const_call: the call performs a migration step
const_call_migrating(m) == move_progressively(m).m

\* the object after a call of a member function that writes no member:
\* contains, find, size, const at, begin/end and the iterator operations
const_call(m) == m

\* the caller is through its script and no call has ended the run
Ready == fault = NoFault /\ script = <<>>

Insert(k, v) ==
  /\ Ready
  /\ UNCHANGED script
  /\ \E r \in {hm_insert(map, Pair(k, v))} :
       Finish(r, r.m,
              [Call("insert", k, map) EXCEPT !.value = v, !.inserted = r.inserted],
              IF model[k] = Absent THEN [model EXCEPT ![k] = v] ELSE model)

At(k) ==
  /\ Ready
  /\ UNCHANGED script
  /\ \E r \in {hm_at(map, k)} :
       Finish(r, r.m,
              [Call("at", k, map) EXCEPT !.value = r.value],
              IF model[k] = Absent THEN [model EXCEPT ![k] = DefaultMapped] ELSE model)

Erase(k) ==
  /\ Ready
  /\ UNCHANGED script
  /\ \E r \in {hm_erase(map, k)} :
       Finish(r, r.m,
              [Call("erase", k, map) EXCEPT !.num = r.num],
              [model EXCEPT ![k] = Absent])

Clear ==
  /\ Ready
  /\ UNCHANGED script
  /\ \E r \in {hm_clear(map)} :
       Finish(r, r.m, Call("clear", 0, map), [k \in DOMAIN model |-> Absent])

Find(k) ==
  /\ Ready
  /\ UNCHANGED script
  /\ \E r \in {hm_find(map, k)} :
       Finish(r, const_call(map),
              [Call("find", k, map) EXCEPT !.found = ~r.end_, !.data = r.data],
              model)

Contains(k) ==
  /\ Ready
  /\ UNCHANGED script
  /\ \E r \in {hm_contains(map, k)} :
       Finish(r, const_call(map), [Call("contains", k, map) EXCEPT !.found = r.found], model)

AtConst(k) ==
  /\ Ready
  /\ UNCHANGED script
  /\ \E r \in {hm_at_const(map, k)} :
       Finish(r, const_call(map),
              [Call("at_const", k, map) EXCEPT !.thrown = r.thrown, !.value = r.value],
              model)

Size ==
  /\ Ready
  /\ UNCHANGED script
  /\ Finish([fault |-> NoFault], const_call(map),
            [Call("size", 0, map) EXCEPT !.size = hm_size(map)], model)

\* for (auto it = map.begin(); it != map.end(); ++it): the elements visited
Iterate ==
  /\ Ready
  /\ UNCHANGED script
  /\ \E r \in {hm_iterate(map)} :
       Finish(r, const_call(map), [Call("iterate", 0, map) EXCEPT !.visited = r.visited], model)

\* map.find(k1) == map.find(k2)
Compare(k1, k2) ==
  /\ Ready
  /\ UNCHANGED script
  /\ \E a \in {hm_find_iterator(map, k1)}, b \in {hm_find_iterator(map, k2)} :
       Finish([fault |-> IF a.fault # NoFault THEN a.fault ELSE b.fault], const_call(map),
              [Call("compare", k1, map) EXCEPT !.key2 = k2,
                                               !.equal = hm_iterator_eq(a.it, b.it)],
              model)

Next ==
  \/ \E k \in keys, v \in Values : Insert(k, v)
  \/ \E k \in keys : At(k)
  \/ \E k \in keys : Erase(k)
  \/ Clear
  \/ \E k \in keys : Find(k)
  \/ \E k \in keys : Contains(k)
  \/ \E k \in keys : AtConst(k)
  \/ Size
  \/ Iterate
  \/ \E k1 \in keys, k2 \in keys : Compare(k1, k2)

Spec == Init /\ [][Next]_vars

\* ------------------------------------------------------------------------
\* A second caller: it first inserts k_treefy_size + 1 keys that share one
\* bucket, which turns that bucket into a tree and starts a grow, and then
\* calls insert on the first key k_treefy_size more times, each call
\* migrating one element, so that one element is left in the tree bucket of
\* old_.  After that it calls any operation on CollideKeys.
\* ------------------------------------------------------------------------

\* the smallest capacity that holds k_treefy_size + 1 elements before it grows
CollideInitialSize == k_treefy_size + 4

CollideScript ==
  [i \in 1..(k_treefy_size + 1) |-> Pair((i - 1) * CollideInitialSize, "a")]
  \o [i \in 1..k_treefy_size |-> Pair(0, "b")]

\* the keys the caller goes on with: the first scripted key (migrated), the
\* last one (still in old_) and a key of another bucket
CollideKeys == {0, k_treefy_size * CollideInitialSize, 1}

InitCollide ==
  /\ keys = CollideKeys
  /\ map = hashmap(CollideInitialSize, DefaultHash)
  /\ fault = NoFault
  /\ model = [k \in CollideKeys \cup {CollideScript[i].first : i \in DOMAIN CollideScript} |->
                Absent]
  /\ last = Call("none", 0, map)
  /\ script = CollideScript
  /\ table = fixed_hashmap(1, DefaultHash)
  /\ bucket = EmptyBucket

\* the next insert of the script
ScriptedInsert ==
  /\ fault = NoFault
  /\ script # <<>>
  /\ script' = Tail(script)
  /\ \E kv \in {Head(script)} : \E r \in {hm_insert(map, kv)} :
       Finish(r, r.m,
              [Call("insert", kv.first, map) EXCEPT !.value = kv.second,
                                                   !.inserted = r.inserted],
              IF model[kv.first] = Absent THEN [model EXCEPT ![kv.first] = kv.second]
              ELSE model)

NextCollide ==
  \/ ScriptedInsert
  \/ Next

SpecCollide == InitCollide /\ [][NextCollide]_vars

\* a step of a mutating public call (insert, at, erase)
MutatingCall ==
  \/ ScriptedInsert
  \/ \E k \in keys, v \in Values : Insert(k, v)
  \/ \E k \in keys : At(k)
  \/ \E k \in keys : Erase(k)

\* A caller that only inserts, from a fresh map or after the script
NextInsert ==
  \/ ScriptedInsert
  \/ \E k \in keys, v \in Values : Insert(k, v)

SpecInsert == (Init \/ InitCollide) /\ [][NextInsert]_vars

\* ------------------------------------------------------------------------
\* A caller that hands the constructor a hasher object other than Hash():
\* hashmap<Key, Mapped, Hash> m(2, Hash{SuppliedSeed}).
\* ------------------------------------------------------------------------

SuppliedSeed == DefaultHash + 1

InitHasher ==
  /\ keys = Keys
  /\ map = hashmap(2, SuppliedSeed)
  /\ fault = NoFault
  /\ model = [k \in Keys |-> Absent]
  /\ last = Call("none", 0, map)
  /\ script = <<>>
  /\ table = fixed_hashmap(1, DefaultHash)
  /\ bucket = EmptyBucket

SpecHasher == InitHasher /\ [][Next]_vars

\* ------------------------------------------------------------------------
\* A third caller: it uses one fixed_hashmap directly, as the table's own
\* tests do (FixedHashMapTest): emplace/insert, at, erase, steal_elements and
\* clear in any order.
\* ------------------------------------------------------------------------

\* the bucket counts handed to the constructor: small tables, and one with
\* more buckets than k_max_steal_iterations
TableSizes == {2, 3, k_max_steal_iterations + 3}

TableKeys == 0..MaxTableKey

InitTable ==
  /\ keys = TableKeys
  /\ map = hashmap(1, DefaultHash)
  /\ fault = NoFault
  /\ model = [k \in TableKeys |-> Absent]
  /\ script = <<>>
  /\ \E initial_size \in TableSizes : table = fixed_hashmap(initial_size, DefaultHash)
  /\ bucket = EmptyBucket
  /\ last = Call("none", 0, table)

\* a caller that first fills the only bucket of a one-bucket table with
\* k_treefy_size + 1 keys, which turns the bucket into a tree, and erases all
\* but k_un_treefy_size of them
TableScriptKeys == (MaxTableKey + 1)..(MaxTableKey + k_treefy_size + 1)

TableScript ==
  [i \in 1..(k_treefy_size + 1) |-> [op |-> "insert", key |-> MaxTableKey + i]]
  \o [i \in 1..(k_treefy_size + 1 - k_un_treefy_size) |->
        [op |-> "erase", key |-> MaxTableKey + i]]

InitTableScript ==
  /\ keys = TableKeys
  /\ map = hashmap(1, DefaultHash)
  /\ fault = NoFault
  /\ model = [k \in TableKeys \cup TableScriptKeys |-> Absent]
  /\ script = TableScript
  /\ table = fixed_hashmap(1, DefaultHash)
  /\ bucket = EmptyBucket
  /\ last = Call("none", 0, table)

\* what a call on the table leaves behind: the table as the call left it, or
\* as it was when the call faulted
TableFinish(r, call, newmodel) ==
  /\ fault' = r.fault
  /\ table' = r.t
  /\ last' = call
  /\ model' = IF r.fault = NoFault THEN newmodel ELSE model
  /\ UNCHANGED <<map, keys, bucket>>

\* the next call of the script
TableScripted ==
  /\ fault = NoFault
  /\ script # <<>>
  /\ script' = Tail(script)
  /\ \E c \in {Head(script)} :
       IF c.op = "insert"
       THEN \E r \in {fh_insert(table, Pair(c.key, "a"))} :
              TableFinish(r, [Call("insert", c.key, table)
                                EXCEPT !.value = "a", !.inserted = r.inserted],
                          IF model[c.key] = Absent THEN [model EXCEPT ![c.key] = "a"]
                          ELSE model)
       ELSE \E r \in {fh_erase(table, c.key)} :
              TableFinish(r, [Call("erase", c.key, table) EXCEPT !.num = r.num],
                          [model EXCEPT ![c.key] = Absent])

\* the caller is through its script and no call has ended the run
TableReady == fault = NoFault /\ script = <<>>

TableInsert(k, v) ==
  /\ TableReady
  /\ UNCHANGED script
  /\ \E r \in {fh_insert(table, Pair(k, v))} :
       TableFinish(r, [Call("insert", k, table) EXCEPT !.value = v, !.inserted = r.inserted],
                   IF model[k] = Absent THEN [model EXCEPT ![k] = v] ELSE model)

TableAt(k) ==
  /\ TableReady
  /\ UNCHANGED script
  /\ \E r \in {fh_at(table, k)} :
       TableFinish(r, [Call("at", k, table) EXCEPT !.value = r.value],
                   IF model[k] = Absent THEN [model EXCEPT ![k] = DefaultMapped] ELSE model)

TableErase(k) ==
  /\ TableReady
  /\ UNCHANGED script
  /\ \E r \in {fh_erase(table, k)} :
       TableFinish(r, [Call("erase", k, table) EXCEPT !.num = r.num],
                   [model EXCEPT ![k] = Absent])

TableSteal(n) ==
  /\ TableReady
  /\ UNCHANGED script
  /\ \E r \in {steal_elements(table, n)} :
       TableFinish(r, [Call("steal", n, table) EXCEPT !.stolen = r.stolen,
                                                     !.visits = r.visits],
                   [k \in DOMAIN model |->
                      IF \E i \in DOMAIN r.stolen : r.stolen[i].first = k
                      THEN Absent ELSE model[k]])

TableClear ==
  /\ TableReady
  /\ UNCHANGED script
  /\ \E r \in {fh_clear(table)} :
       TableFinish(r, Call("clear", 0, table), [k \in DOMAIN model |-> Absent])

\* the iterators the caller can hold: find(k) of the keys it has used
TableIterators ==
  IF TableReady /\ get_bucket_count(table) > 0
  THEN {fh_find_iterator(table, "table", k).it : k \in DOMAIN model}
  ELSE {}

\* it = table.erase(it)
TableEraseIterator(it) ==
  /\ TableReady
  /\ UNCHANGED script
  /\ \E r \in {fh_erase_iterator(table, it)} :
       TableFinish(r, [Call("erase_iterator", 0, table)
                         EXCEPT !.it = r.it, !.key2 = it, !.thrown = r.thrown],
                   IF it.end_ \/ r.fault # NoFault THEN model
                   ELSE [model EXCEPT ![fh_iterator_deref(table, it).first] = Absent])

NextTable ==
  \/ TableScripted
  \/ \E k \in keys : TableInsert(k, "a")
  \/ \E k \in keys : TableAt(k)
  \/ \E k \in keys : TableErase(k)
  \/ \E n \in 1..MaxSteal : TableSteal(n)
  \/ TableClear
  \/ \E it \in TableIterators : TableEraseIterator(it)

SpecTable == (InitTable \/ InitTableScript) /\ [][NextTable]_vars

\* ------------------------------------------------------------------------
\* A fourth caller: it uses one tree_list directly, as the bucket's own tests
\* do (TreeListTest): insert, erase by value and by iterator, find, iteration
\* and clear.  The elements are pairs ordered by ComparePairFirst, as in the
\* buckets of a table, all with the mapped value "a".
\* ------------------------------------------------------------------------

BucketKeys == 0..MaxBucketKey

\* the keys of a caller that first makes k_treefy_size + 1 inserts
BucketScriptKeys == 0..k_treefy_size

\* k_treefy_size + 1 inserts: the last one finds a list of k_treefy_size
\* elements and turns it into a tree
BucketScriptInserts == [i \in 1..(k_treefy_size + 1) |-> [op |-> "insert", key |-> i - 1]]

\* the same inserts, then erases that leave the keys of BucketKeys
BucketScriptErases ==
  BucketScriptInserts
  \o [i \in 1..(k_treefy_size - MaxBucketKey) |-> [op |-> "erase", key |-> MaxBucketKey + i]]

InitBucket ==
  /\ keys = BucketKeys
  /\ map = hashmap(1, DefaultHash)
  /\ fault = NoFault
  /\ model = [k \in BucketKeys |-> Absent]
  /\ script \in {<<>>, BucketScriptInserts, BucketScriptErases}
  /\ table = fixed_hashmap(1, DefaultHash)
  /\ bucket = EmptyBucket
  /\ last = Call("none", 0, bucket)

\* what a call on the bucket leaves behind: the bucket as the call left it,
\* or as it was when the call faulted
BucketFinish(f, b, call) ==
  /\ fault' = f
  /\ bucket' = b
  /\ last' = call
  /\ UNCHANGED <<map, keys, model, table>>

\* the next call of the script
BucketScripted ==
  /\ fault = NoFault
  /\ script # <<>>
  /\ script' = Tail(script)
  /\ \E c \in {Head(script)} :
       IF c.op = "insert"
       THEN \E r \in {tl_insert(bucket, Pair(c.key, "a"))} :
              BucketFinish(r.fault, r.b, Call("insert", c.key, bucket))
       ELSE \E r \in {tl_erase_key(bucket, Pair(c.key, "a"), NoFault)} :
              BucketFinish(r.fault, r.b, Call("erase", c.key, bucket))

\* list.insert(Pair(k, "a")), into a list of fewer than MaxListInserts elements
\* or into a tree that insert hands to un_treefy first (size_ <= 3)
BucketInsert(k) ==
  /\ TableReady
  /\ UNCHANGED script
  /\ \/ bucket.ds_type_ = "k_linked_list" /\ bucket.size_ < MaxListInserts
     \/ bucket.ds_type_ = "k_red_black_tree" /\ bucket.size_ <= k_un_treefy_size
  /\ \E r \in {tl_insert(bucket, Pair(k, "a"))} :
       BucketFinish(r.fault, r.b, Call("insert", k, bucket))

\* list.erase(Pair(k, "a"))
BucketErase(k) ==
  /\ TableReady
  /\ UNCHANGED script
  /\ \E outcome \in ListAsTreeOutcomes :
     \E r \in {tl_erase_key(bucket, Pair(k, "a"), outcome)} :
       BucketFinish(r.fault, r.b, Call("erase", k, bucket))

\* the iterators a caller can hold: find(Pair(k, "a")) for a key k, and end()
BucketIterators ==
  IF TableReady THEN {tl_find(bucket, Pair(k, "a")) : k \in keys} \cup {Null} ELSE {Null}

\* it = list.erase(it)
BucketEraseIterator(it) ==
  /\ TableReady
  /\ UNCHANGED script
  /\ \E r \in {tl_erase(bucket, it)} :
       BucketFinish(r.fault, r.b, [Call("erase_iterator", it, bucket) EXCEPT !.it = r.it])

\* list.find(Pair(k, "a")) != list.end()
BucketFind(k) ==
  /\ TableReady
  /\ UNCHANGED script
  /\ BucketFinish(NoFault, bucket,
                  [Call("find", k, bucket) EXCEPT !.it = tl_find(bucket, Pair(k, "a")),
                     !.found = tl_find(bucket, Pair(k, "a")) # Null])

\* for (it = list.begin(); it != list.end(); ++it) visited.push_back(*it)
BucketIterate ==
  /\ TableReady
  /\ UNCHANGED script
  /\ IF tl_begin_faults(bucket)
     THEN BucketFinish("null_deref", bucket, Call("iterate", 0, bucket))
     ELSE \E its \in {tl_iterate(bucket)} :
            BucketFinish(NoFault, bucket,
                         [Call("iterate", 0, bucket) EXCEPT
                            !.visited = [i \in 1..Len(its) |-> tl_deref(bucket, its[i])]])

\* list.clear()
BucketClear ==
  /\ TableReady
  /\ UNCHANGED script
  /\ \E r \in {tl_clear(bucket)} : BucketFinish(r.fault, r.b, Call("clear", 0, bucket))

NextBucket ==
  \/ BucketScripted
  \/ \E k \in keys : BucketInsert(k)
  \/ \E k \in keys : BucketErase(k)
  \/ \E it \in BucketIterators : BucketEraseIterator(it)
  \/ \E k \in keys : BucketFind(k)
  \/ BucketIterate
  \/ BucketClear

SpecBucket == InitBucket /\ [][NextBucket]_vars

\* ========================================================================
\* Observers used by the properties
\* ========================================================================

\* the node slots of a bucket (list positions or tree node ids)
tl_slots(b) ==
  IF b.ds_type_ = "k_linked_list" THEN 1..Len(b.head_) ELSE DOMAIN b.nodes

\* the slots of a table, as <<bucket index, slot>>
fh_slots(t) ==
  UNION {{<<i, n>> : n \in tl_slots(t.table_.data_[i])} : i \in DOMAIN t.table_.data_}

fh_slot_data(t, s) == tl_deref(t.table_.data_[s[1]], s[2])

\* how many elements with key k a table stores
fh_count(t, k) == Cardinality({s \in fh_slots(t) : fh_slot_data(t, s).first = k})

InTable(t, k) == fh_count(t, k) > 0

\* the value stored with k in a table that stores k
ValueIn(t, k) ==
  fh_slot_data(t, CHOOSE s \in fh_slots(t) : fh_slot_data(t, s).first = k).second

Bound(m, k) == InTable(m.current_, k) \/ InTable(m.old_, k)

BoundValue(m, k) ==
  IF InTable(m.current_, k) THEN ValueIn(m.current_, k) ELSE ValueIn(m.old_, k)

\* every key that is bound in a map or known to the reference map
AllKeys == DOMAIN model

\* ========================================================================
\* Properties
\* ========================================================================

\* C1: in every state reached by public operations, every key has at most
\* one binding across current_ and old_ (so no key is bound in both tables).
C1_AtMostOneBinding ==
  \A k \in AllKeys : fh_count(map.current_, k) + fh_count(map.old_, k) <= 1

\* C1 witness: during a rehash an insert of a key that is still bound in
\* old_ was rejected while current_ already holds migrated elements.
C1_Witness ==
  /\ last.op = "insert" /\ ~last.inserted /\ fault = NoFault
  /\ map.rehashing_
  /\ InTable(map.old_, last.key)
  /\ fh_size(map.current_) > 0

\* C2: size() = current_.size() + old_.size() is the number of keys bound in
\* the reference map, and these are the keys bound in the hashmap.
C2_SizeMatchesModel ==
  /\ hm_size(map) = Cardinality({k \in AllKeys : model[k] # Absent})
  /\ \A k \in AllKeys : (model[k] # Absent) <=> Bound(map, k)

\* C2 witness: the last bound key was erased during a rehash and size() is 0.
C2_Witness ==
  /\ last.op = "erase" /\ last.num = 1 /\ fault = NoFault
  /\ last.pre.rehashing_
  /\ hm_size(last.pre) = 1
  /\ hm_size(map) = 0

\* C3: round trip: for a key k that is not bound before the call,
\* insert((k, v)) returns true and an immediately following find(k) returns
\* an element whose key is k and whose value is v.
C3_InsertFindRoundTrip ==
  (last.op = "insert" /\ ~Bound(last.pre, last.key)) =>
    /\ fault = NoFault
    /\ last.inserted
    /\ hm_find(map, last.key) =
         [fault |-> NoFault, end_ |-> FALSE, data |-> Pair(last.key, last.value)]

\* C4: insert on a key k that is already bound returns false, changes neither
\* the value bound to k nor size(), and leaves the binding in the table where
\* it was before the call (a binding of old_ that the migration step of this
\* very call carries over to current_ is let pass: the binding never enters
\* old_).
C4_InsertExistingIdempotent ==
  (last.op = "insert" /\ Bound(last.pre, last.key)) =>
    /\ fault = NoFault
    /\ ~last.inserted
    /\ Bound(map, last.key)
    /\ BoundValue(map, last.key) = BoundValue(last.pre, last.key)
    /\ hm_size(map) = hm_size(last.pre)
    /\ InTable(map.old_, last.key) => InTable(last.pre.old_, last.key)

\* C5: after every insert of a sequence of inserts, every key the reference
\* map holds still satisfies contains(k) and is bound to the value it was
\* inserted with, whatever the progress of the migration.
C5_NoBindingLostByResizing ==
  (last.op = "insert") =>
    /\ fault = NoFault
    /\ \A k \in AllKeys :
         model[k] # Absent =>
           /\ hm_contains(map, k) = [fault |-> NoFault, found |-> TRUE]
           /\ Bound(map, k)
           /\ BoundValue(map, k) = model[k]

\* C6: erase(k) returns 1 if k was bound before the call and 0 otherwise;
\* afterwards contains(k) is false, size() has decreased by the returned
\* value, and every other binding is unchanged.
C6_EraseContract ==
  (last.op = "erase") =>
    /\ fault = NoFault
    /\ last.num = (IF Bound(last.pre, last.key) THEN 1 ELSE 0)
    /\ hm_contains(map, last.key) = [fault |-> NoFault, found |-> FALSE]
    /\ hm_size(map) = hm_size(last.pre) - last.num
    /\ \A k \in AllKeys \ {last.key} :
         /\ Bound(map, k) <=> Bound(last.pre, k)
         /\ Bound(map, k) => BoundValue(map, k) = BoundValue(last.pre, k)

\* C7: in every reachable state and for every key k, contains(k) is true iff
\* find(k) is not end iff k is bound in current_ or in old_ (so find of an
\* unbound key returns end).
C7_ContainsFindAgree ==
  (fault = NoFault) =>
    \A k \in AllKeys :
      /\ hm_contains(map, k).fault = NoFault
      /\ hm_find(map, k).fault = NoFault
      /\ hm_contains(map, k).found <=> ~hm_find(map, k).end_
      /\ hm_contains(map, k).found <=> Bound(map, k)

\* C8: mutable at(k) on a bound key returns the value bound to k and neither
\* changes size() nor creates a second binding.
C8_AtOnBoundKey ==
  (last.op = "at" /\ Bound(last.pre, last.key)) =>
    /\ fault = NoFault
    /\ last.value = BoundValue(last.pre, last.key)
    /\ hm_size(map) = hm_size(last.pre)
    /\ fh_count(map.current_, last.key) + fh_count(map.old_, last.key) = 1

\* C9: mutable at(k) on a key that is not bound inserts (k, Mapped()) into
\* current_ (which is old_ on return when the call ends by starting a
\* resize), returns that default value and increases size() by exactly 1.
C9_AtOnUnboundKey ==
  (last.op = "at" /\ ~Bound(last.pre, last.key)) =>
    /\ fault = NoFault
    /\ last.value = DefaultMapped
    /\ \/ InTable(map.current_, last.key)
       \/ map.rehashing_ /\ fh_empty(map.current_) /\ InTable(map.old_, last.key)
    /\ BoundValue(map, last.key) = DefaultMapped
    /\ hm_size(map) = hm_size(last.pre) + 1

\* C10: const at(k) on a key that is not bound throws std::out_of_range and
\* leaves the whole state unchanged; no other public operation throws.
C10_ConstAtKeyMissing ==
  /\ (last.op = "at_const" /\ ~Bound(last.pre, last.key)) =>
       /\ fault = NoFault
       /\ last.thrown
       /\ map = last.pre
  /\ last.thrown => last.op = "at_const"

\* C11: after clear() called in any reachable state, the call has completed,
\* size() = 0, rehashing_ is false, both tables hold no element and no key is
\* bound.
C11_ClearEmptiesMap ==
  (last.op = "clear") =>
    /\ fault = NoFault
    /\ hm_size(map) = 0
    /\ ~map.rehashing_
    /\ fh_empty(map.current_) /\ fh_empty(map.old_)
    /\ fh_elements(map.current_) = {} /\ fh_elements(map.old_) = {}
    /\ \A k \in AllKeys : ~Bound(map, k)

\* C11 witness: clear() was called during a rehash with elements in both
\* tables.
C11_Witness ==
  /\ last.op = "clear" /\ fault = NoFault
  /\ last.pre.rehashing_
  /\ fh_size(last.pre.current_) > 0 /\ fh_size(last.pre.old_) > 0
  /\ hm_size(map) = 0

\* the elements stored in the two tables
AllElements(m) == fh_elements(m.current_) \cup fh_elements(m.old_)

\* C12: iterating the map from begin() until end() completes and visits every
\* bound element exactly once: the number of visited elements equals size(),
\* no element is visited twice and every element is visited.
C12_IterationVisitsEachOnce ==
  (last.op = "iterate") =>
    /\ fault = NoFault
    /\ Len(last.visited) = hm_size(map)
    /\ \A i, j \in DOMAIN last.visited : i # j => last.visited[i] # last.visited[j]
    /\ {last.visited[i] : i \in DOMAIN last.visited} = AllElements(map)

\* C13: two map iterators compare equal iff they are both end or reference the
\* same element: when find(k1) == find(k2) has been evaluated, the result is
\* true iff both keys are unbound (both iterators are end) or k1 = k2 is bound
\* (the same element slot; by C1 a key has one slot).
C13_IteratorEquality ==
  (last.op = "compare" /\ fault = NoFault) =>
    (last.equal <=>
       \/ ~Bound(map, last.key) /\ ~Bound(map, last.key2)
       \/ Bound(map, last.key) /\ last.key = last.key2)

\* the public operations that only read
ReadOnlyOps == {"contains", "find", "size", "at_const", "iterate", "compare"}

\* C14: read-only operations (contains, find, size, const at, begin/end) never
\* perform a migration step: they leave current_, old_, both sizes, the
\* migration cursor and the rehashing flag unchanged.
C14_ReadOnlyNoMigration ==
  (last.op \in ReadOnlyOps) => map = last.pre

\* C14 witness: find was called during a rehash with elements left in old_, so
\* a migration step had something to move.
C14_Witness ==
  /\ last.op = "find" /\ fault = NoFault
  /\ last.pre.rehashing_ /\ ~fh_empty(last.pre.old_)
  /\ map.old_ = last.pre.old_

\* C15: all bucket and table operations are total: on every bucket state
\* reachable by sequences of insert, erase and steal (including a bucket that
\* was promoted to tree regime and from which every element was later erased
\* or stolen), find/contains/insert/erase/begin complete without
\* dereferencing a null head or root.
C15_BucketOperationsTotal ==
  fault # "null_deref"

\* C16: in every reachable state, rehashing_ = false implies old_.size = 0.
C16_IdleOldEmpty ==
  ~map.rehashing_ => (fh_size(map.old_) = 0 /\ fh_elements(map.old_) = {})

\* C16 witness: a migration step has just ended a rehash that carried
\* elements over to current_.
C16_Witness ==
  /\ fault = NoFault /\ last.op \in {"insert", "at", "erase"}
  /\ last.pre.rehashing_ /\ ~map.rehashing_
  /\ fh_size(map.current_) > 0 /\ fh_size(map.old_) = 0

\* the public operations that run a migration step and end with the
\* destructor of a maybe_rehash_guard
MutatingOps == {"insert", "at", "erase"}

\* C17: load-factor policy: whenever a mutating public call (insert, emplace,
\* at/operator[], erase) reaches its end with rehashing_ = false,
\* n = current_.size and c = current_.capacity, then if 4n >= 3c a grow to
\* capacity 2c begins, else if c > 4n and c > 16 a shrink to capacity 3n
\* begins, else no resize begins; hence a mutating call never returns in the
\* idle state with 4n >= 3c or with (c > 4n and c > 16).
C17_LoadFactorPolicy ==
  (last.op \in MutatingOps /\ fault = NoFault) =>
    /\ With(before_guard(last.pre, last.op, last.key, last.value), LAMBDA e :
         ~e.rehashing_ =>
           LET n == fh_size(e.current_)
               c == get_bucket_count(e.current_)
           IN IF 4 * n >= 3 * c
              THEN map.rehashing_ /\ get_bucket_count(map.current_) = 2 * c
              ELSE IF c > 4 * n /\ c > 16
              THEN map.rehashing_ /\ get_bucket_count(map.current_) = 3 * n
              ELSE map = e)
    /\ ~map.rehashing_ =>
         LET n == fh_size(map.current_)
             c == get_bucket_count(map.current_)
         IN ~(4 * n >= 3 * c) /\ ~(c > 4 * n /\ c > 16)

\* C17 witness: an insert ended idle with 4n >= 3c and a grow to 2c began.
C17_Witness ==
  /\ last.op = "insert" /\ fault = NoFault /\ ~last.pre.rehashing_
  /\ 4 * (fh_size(last.pre.current_) + 1) >= 3 * get_bucket_count(last.pre.current_)
  /\ map.rehashing_
  /\ get_bucket_count(map.current_) = 2 * get_bucket_count(last.pre.current_)
  /\ fh_size(map.old_) = fh_size(last.pre.current_) + 1

\* C18: immediately after a resize to new_cap begins: current_ is an empty
\* table of capacity new_cap, old_ holds exactly the bindings current_ held
\* before (same capacity as before, migration cursor at its capacity - 1),
\* and rehashing_ = true.  A resize begins in the guard of a mutating call
\* whose body ended idle.
C18_ResizeBegins ==
  (last.op \in MutatingOps /\ fault = NoFault) =>
    With(before_guard(last.pre, last.op, last.key, last.value), LAMBDA e :
      (~e.rehashing_ /\ map # e) =>
        /\ map.rehashing_
        /\ fh_size(map.current_) = 0
        /\ fh_elements(map.current_) = {}
        /\ get_bucket_count(map.current_) \in
             {2 * get_bucket_count(e.current_), 3 * fh_size(e.current_)}
        /\ DOMAIN map.current_.table_.data_ = 0..(get_bucket_count(map.current_) - 1)
        /\ \A i \in DOMAIN map.current_.table_.data_ :
             map.current_.table_.data_[i] = EmptyBucket
        /\ fh_elements(map.old_) = fh_elements(e.current_)
        /\ fh_size(map.old_) = fh_size(e.current_)
        /\ map.old_.table_ = e.current_.table_
        /\ get_bucket_count(map.old_) = get_bucket_count(e.current_)
        /\ map.old_.stolen_bucket_ = get_bucket_count(map.old_) - 1)

\* C18 witness: the guard of an at() call began a resize with two bindings
\* handed over to old_.
C18_Witness ==
  /\ last.op = "at" /\ fault = NoFault /\ ~last.pre.rehashing_ /\ map.rehashing_
  /\ fh_size(map.current_) = 0 /\ Cardinality(fh_elements(map.old_)) = 2
  /\ map.old_.stolen_bucket_ = get_bucket_count(map.old_) - 1

\* C19: a resize begins only when old_ is empty and no rehash is in progress:
\* the assertion old_.empty() at the start of rehash() holds on every
\* reachable call, and no new resize begins while rehashing_ = true.
C19_ResizeOnlyWhenIdle ==
  /\ fault # "assert_failed"
  /\ (last.op \in MutatingOps /\ fault = NoFault) =>
       With(before_guard(last.pre, last.op, last.key, last.value), LAMBDA e :
         /\ ~e.rehashing_ => fh_empty(e.old_)
         /\ e.rehashing_ => map = e)
  /\ (last.op \notin MutatingOps /\ map.rehashing_) => map = last.pre

\* C19 witness: an insert returned during a rehash with elements left in
\* old_ and current_ sparse enough for a shrink (c > 4n, c > 16): no resize
\* began.
C19_Witness ==
  /\ last.op = "insert" /\ fault = NoFault /\ last.pre.rehashing_ /\ map.rehashing_
  /\ ~fh_empty(map.old_)
  /\ get_bucket_count(map.current_) > 4 * fh_size(map.current_)
  /\ get_bucket_count(map.current_) > k_shrink_min_buckets
  /\ get_bucket_count(map.current_) = get_bucket_count(last.pre.current_)

\* by how much the last call made old_ smaller
OldSizeDecrease == fh_size(last.pre.old_) - fh_size(map.old_)

\* C20 as stated: during a rehash, one mutating public operation decreases
\* old_.size by at most STEAL_BATCH (= 1).
C20_StealBatchBound ==
  (last.op \in MutatingOps /\ fault = NoFault /\ last.pre.rehashing_) =>
    OldSizeDecrease <= k_num_items_to_steal

\* C20: during a rehash, the migration step of one mutating public operation
\* takes at most STEAL_BATCH (= 1) elements out of old_; insert and at
\* decrease old_.size by at most STEAL_BATCH, and erase(k) by at most
\* STEAL_BATCH plus the number of elements it erased.
C20_StealBatchBoundAmended ==
  (last.op \in MutatingOps /\ fault = NoFault /\ last.pre.rehashing_) =>
    /\ With(move_progressively(last.pre).m, LAMBDA mp :
         fh_size(last.pre.old_) - fh_size(mp.old_) <= k_num_items_to_steal)
    /\ last.op \in {"insert", "at"} => OldSizeDecrease <= k_num_items_to_steal
    /\ last.op = "erase" => OldSizeDecrease <= k_num_items_to_steal + last.num

\* C20 witness: an erase during a rehash made old_ smaller by two elements,
\* one taken by the migration step and one erased from old_.
C20_Witness ==
  /\ last.op = "erase" /\ fault = NoFault /\ last.pre.rehashing_
  /\ last.num = 1 /\ OldSizeDecrease = 2

\* the migration step of the last call, made on a non-empty old_, took an
\* element out of old_ or lowered its cursor
MigrationStepProgress ==
  (last.op \in MutatingOps /\ last.pre.rehashing_ /\ ~fh_empty(last.pre.old_)) =>
    With(move_progressively(last.pre), LAMBDA mp :
      /\ mp.fault = NoFault
      /\ \/ fh_size(mp.m.old_) < fh_size(last.pre.old_)
         \/ mp.m.old_.stolen_bucket_ < last.pre.old_.stolen_bucket_)

\* C21: rehash completion: if rehashing_ = true and mutating public calls keep
\* occurring, then after finitely many of them old_ is empty and rehashing_ is
\* reset to false; every migration step made while old_ is non-empty either
\* removes at least one element from old_ or strictly lowers old_'s migration
\* cursor.
C21_RehashCompletes ==
  /\ ([]<><<MutatingCall>>_vars) => ([]<>(~map.rehashing_ /\ fh_empty(map.old_)))
  /\ []MigrationStepProgress

\* C21 witness: a mutating call found old_ drained and ended the rehash,
\* leaving old_ a one-bucket table and the migrated elements in current_.
C21_Witness ==
  /\ last.op \in MutatingOps /\ fault = NoFault
  /\ last.pre.rehashing_ /\ fh_empty(last.pre.old_) /\ fh_size(last.pre.current_) >= 2
  /\ ~map.rehashing_ /\ get_bucket_count(map.old_) = 1

\* the elements a steal call returned
StolenSet == {last.stolen[i] : i \in DOMAIN last.stolen}

\* the buckets of a table above its migration cursor
AboveCursor(t) == {i \in DOMAIN t.table_.data_ : i > t.stolen_bucket_}

\* C22: after any steal(n) call on a FixedTable returning m elements:
\* 0 <= m <= n, the table's size decreased by exactly m, the returned elements
\* are no longer in the table while all others still are, and every bucket at
\* an index greater than migration_cursor is empty.
C22_StealContract ==
  (last.op = "steal" /\ fault = NoFault) =>
    /\ Len(last.stolen) <= last.key
    /\ fh_size(table) = fh_size(last.pre) - Len(last.stolen)
    /\ Cardinality(StolenSet) = Len(last.stolen)
    /\ StolenSet \subseteq fh_elements(last.pre)
    /\ fh_elements(table) = fh_elements(last.pre) \ StolenSet
    /\ \A i \in AboveCursor(table) : tl_empty(table.table_.data_[i])

\* C23: the assertion inside steal holds on every reachable call: when the
\* migration cursor is 0 and bucket 0 is empty, the table's size counter is 0.
C23_StealAssertion ==
  (last.op = "steal") =>
    /\ fault # "assert_failed"
    /\ (table.stolen_bucket_ = 0 /\ tl_empty(table.table_.data_[0])) => fh_size(table) = 0

\* C24: a single steal(n) call visits at most MAX_STEAL_SCAN = 300 buckets
\* before returning, for every table capacity and every distribution of empty
\* buckets.
C24_StealScanCap ==
  (last.op = "steal") => last.visits <= k_max_steal_iterations

\* C25: on a FixedTable whose capacity does not exceed the scan cap, steal(n)
\* returns exactly min(n, size) elements; consecutive steal calls whose
\* requests sum to the table's size leave it with size 0 (a call that asks
\* for all that is left leaves nothing).
C25_StealReturnsMin ==
  (last.op = "steal" /\ get_bucket_count(last.pre) <= k_max_steal_iterations) =>
    /\ fault = NoFault
    /\ Len(last.stolen) = Min({last.key, fh_size(last.pre)})
    /\ last.key = fh_size(last.pre) => fh_size(table) = 0

\* the sum of the size counters of the buckets lo..hi of a table
RECURSIVE BucketSizeSum(_, _, _)
BucketSizeSum(t, lo, hi) ==
  IF lo > hi THEN 0
  ELSE IF lo = hi THEN t.table_.data_[lo].size_
  ELSE BucketSizeSum(t, lo, (lo + hi) \div 2) + BucketSizeSum(t, (lo + hi) \div 2 + 1, hi)

\* the size counter of a table, the size counters of its buckets and the
\* elements stored agree
SizeCountersAgree(t) ==
  /\ fh_size(t) = BucketSizeSum(t, 0, get_bucket_count(t) - 1)
  /\ \A i \in DOMAIN t.table_.data_ :
       t.table_.data_[i].size_ = Cardinality(tl_slots(t.table_.data_[i]))
  /\ fh_size(t) = Cardinality(fh_slots(t))

\* C26: for every FixedTable in every reachable state, its size counter equals
\* the sum over all buckets of the bucket's size counter, which equals the
\* number of elements actually stored in the table.
C26_SizeCounters ==
  /\ SizeCountersAgree(map.current_)
  /\ SizeCountersAgree(map.old_)
  /\ SizeCountersAgree(table)

\* C27: a FixedTable's capacity is fixed at construction: no operation on it
\* (insert, erase, at, steal, clear) changes its bucket count; capacity changes
\* only by replacing the table in a resize.
C27_CapacityFixed ==
  (last.op \in {"insert", "erase", "at", "steal", "clear"}) =>
    get_bucket_count(table) = get_bucket_count(last.pre)

\* C28: for a map constructed with initial capacity >= 1, after any sequence
\* of insert, erase, at and clear calls the capacity of current_ (and of old_)
\* is at least 1, so the bucket index hasher(k) mod capacity is defined for
\* every subsequent public call.
C28_CapacityAtLeastOne ==
  /\ get_bucket_count(map.current_) >= 1
  /\ get_bucket_count(map.old_) >= 1
  /\ fault # "div_by_zero"

\* C29: while rehashing_ = true, no public operation inserts an element into
\* old_: old_.size never increases and old_'s migration cursor never
\* increases, so each element of old_ is moved to current_ at most once during
\* one rehash; the cursor of current_ always stays at current_.capacity - 1.
\* (A mutating call whose body ends with rehashing_ still true has continued
\* the rehash it found.)
C29_OldOnlyShrinks ==
  /\ (last.op \in MutatingOps /\ fault = NoFault /\ last.pre.rehashing_) =>
       With(before_guard(last.pre, last.op, last.key, last.value), LAMBDA e :
         e.rehashing_ =>
           /\ fh_elements(map.old_) \subseteq fh_elements(last.pre.old_)
           /\ fh_size(map.old_) <= fh_size(last.pre.old_)
           /\ map.old_.stolen_bucket_ <= last.pre.old_.stolen_bucket_
           /\ fh_keys(map.current_) \cap fh_keys(map.old_) = {})
  /\ (last.op \in ReadOnlyOps /\ last.pre.rehashing_) => map.old_ = last.pre.old_
  /\ map.rehashing_ =>
       map.current_.stolen_bucket_ = get_bucket_count(map.current_) - 1

\* an insert or at that found a rehash under way, left it under way, moved
\* elements out of old_ and put its own new key into current_
C29_Witness ==
  /\ last.op \in {"insert", "at"} /\ fault = NoFault
  /\ last.pre.rehashing_ /\ map.rehashing_
  /\ fh_size(map.old_) < fh_size(last.pre.old_)
  /\ last.key \notin (fh_keys(last.pre.current_) \cup fh_keys(last.pre.old_))
  /\ last.key \in fh_keys(map.current_)

\* the bucket index the hasher handed to the constructor gives key k in t
SuppliedIndex(t, k) == Hasher(SuppliedSeed, k) % get_bucket_count(t)

\* C30: the hasher supplied at map construction is the one used by every
\* table for the map's whole life: after any number of resizes the bucket
\* index of key k in current_ and in old_ is (supplied hasher)(k) mod that
\* table's capacity.
C30_SuppliedHasherKept ==
  \A k \in Keys :
    /\ get_bucket_count(map.current_) > 0 =>
         fh_hash(map.current_, k) = SuppliedIndex(map.current_, k)
    /\ get_bucket_count(map.old_) > 0 =>
         fh_hash(map.old_, k) = SuppliedIndex(map.old_, k)

\* the elements a caller of one bucket stores
BucketData == {Pair(k, "a") : k \in BucketScriptKeys}

\* how many nodes of bucket b hold element e
Count(b, e) == Cardinality({n \in tl_slots(b) : tl_deref(b, n) = e})

\* bucket b holds what bucket a holds and one more e
HoldsOneMore(b, a, e) ==
  \A d \in BucketData : Count(b, d) = Count(a, d) + (IF d = e THEN 1 ELSE 0)

\* C31: promotion: after any insert into a bucket that leaves its size >= 10
\* the bucket is in tree regime, it contains exactly the elements it had
\* before plus the new one, and find succeeds on each of them.
C31_Promotion ==
  (last.op = "insert" /\ fault = NoFault /\ bucket.size_ >= k_treefy_size) =>
    /\ bucket.ds_type_ = "k_red_black_tree"
    /\ HoldsOneMore(bucket, last.pre, Pair(last.key, "a"))
    /\ \A d \in BucketData : Count(bucket, d) > 0 => tl_find(bucket, d) # Null

\* the calls that erase from a bucket: by value and by iterator
BucketEraseOps == {"erase", "erase_iterator"}

\* C32: demotion: after any erase (by key, by iterator or through steal) from
\* a tree-regime bucket that leaves its size <= 3, the bucket is in list
\* regime (tag = list) and contains exactly the remaining elements.
C32_Demotion ==
  (/\ last.op \in BucketEraseOps /\ fault = NoFault
   /\ last.pre.ds_type_ = "k_red_black_tree"
   /\ bucket.size_ < last.pre.size_ /\ bucket.size_ <= k_un_treefy_size) =>
    /\ bucket.ds_type_ = "k_linked_list"
    /\ \E e \in BucketData : HoldsOneMore(last.pre, bucket, e)

\* the numbers of black nodes on the paths from node n down to a null link
RECURSIVE BlackCounts(_, _)
BlackCounts(nodes, n) ==
  IF n = Null THEN {0}
  ELSE {c + (IF nodes[n].color_ = "k_black" THEN 1 ELSE 0) :
          c \in BlackCounts(nodes, nodes[n].left_) \cup BlackCounts(nodes, nodes[n].right_)}

\* the red-black invariants of a tree bucket with a root
RedBlack(b) ==
  /\ b.nodes[b.root_].color_ = "k_black"
  /\ \A n \in DOMAIN b.nodes :
       b.nodes[n].color_ = "k_red" =>
         /\ IsBlackOrNull(b.nodes, b.nodes[n].left_)
         /\ IsBlackOrNull(b.nodes, b.nodes[n].right_)
  /\ Cardinality(BlackCounts(b.nodes, b.root_)) = 1

\* C33: for every bucket in tree regime after any sequence of inserts and
\* erases, the red-black invariants hold: the root is black, no red node has
\* a red child, and every root-to-leaf path has the same number of black
\* nodes.
C33_RedBlackInvariants ==
  (bucket.ds_type_ = "k_red_black_tree" /\ bucket.root_ # Null /\ fault = NoFault) =>
    RedBlack(bucket)

\* C34: for every bucket in tree regime after any sequence of inserts and
\* erases, iteration from begin() to end() yields the stored elements in
\* ascending Cmp order, each once.
C34_TreeIterationSorted ==
  (last.op = "iterate" /\ bucket.ds_type_ = "k_red_black_tree") =>
    /\ fault = NoFault
    /\ \A i, j \in DOMAIN last.visited : i < j => ~compare(last.visited[j], last.visited[i])
    /\ Len(last.visited) = Cardinality(DOMAIN bucket.nodes)
    /\ \A d \in BucketData :
         Cardinality({i \in DOMAIN last.visited : last.visited[i] = d}) = Count(bucket, d)

\* C35: for every bucket in list regime after any sequence of operations:
\* size >= 1 implies head is non-null, and the chain reachable from head is
\* finite with length equal to the size counter.
C35_ListInvariant ==
  (bucket.ds_type_ = "k_linked_list") =>
    /\ bucket.size_ >= 1 => bucket.head_ # <<>>
    /\ Len(bucket.head_) = bucket.size_

\* a list of several elements after an erase that unlinked a node which was
\* not the head
C35_Witness ==
  /\ bucket.ds_type_ = "k_linked_list" /\ bucket.size_ >= 2
  /\ last.op \in BucketEraseOps /\ bucket.size_ < last.pre.size_
  /\ bucket.head_[1] = last.pre.head_[1]

\* the number of elements a bucket holds in list nodes and in tree nodes
Stored(b) == Len(b.head_) + Cardinality(DOMAIN b.nodes)

\* C36: for every bucket, in both regimes and across promotions and
\* demotions, the size counter equals the number of elements stored: each
\* insert of a new element raises it by exactly 1, each successful erase
\* lowers it by exactly 1, and a regime transition leaves it unchanged.
C36_BucketSizeCounter ==
  /\ bucket.size_ = Stored(bucket)
  /\ (last.op = "insert" /\ fault = NoFault) => bucket.size_ = last.pre.size_ + 1
  /\ (last.op \in BucketEraseOps /\ Stored(bucket) < Stored(last.pre)) =>
       bucket.size_ = last.pre.size_ - 1

\* C37: bucket erase(key): in list regime and in tree regime, erasing a
\* stored key lowers the size by exactly 1 and makes find(key) return end
\* while every other element stays findable; erasing a key that is not
\* stored changes nothing.
C37_EraseByKey ==
  (last.op = "erase") =>
    With(Pair(last.key, "a"), LAMBDA e :
      /\ fault = NoFault
      /\ Count(last.pre, e) > 0 =>
           /\ bucket.size_ = last.pre.size_ - 1
           /\ tl_find(bucket, e) = Null
           /\ \A d \in BucketData \ {e} :
                Count(last.pre, d) > 0 => tl_find(bucket, d) # Null
      /\ Count(last.pre, e) = 0 => bucket = last.pre)

\* C38: bucket erase(end()) is a no-op in both regimes: size and the stored
\* elements (and their iteration order) are unchanged and end is returned.
C38_EraseEndNoOp ==
  (last.op = "erase_iterator" /\ last.key = Null) =>
    /\ fault = NoFault
    /\ bucket = last.pre
    /\ last.it = Null

\* erase(end()) was called on a tree of several elements
C38_Witness ==
  /\ last.op = "erase_iterator" /\ last.key = Null
  /\ last.pre.ds_type_ = "k_red_black_tree" /\ last.pre.size_ >= 2

\* C39: bucket insert rejects duplicates at its own boundary: inserting an
\* element key-equal to one already stored reports 'not inserted', stores
\* nothing and leaves the size unchanged, so all keys contained in a bucket
\* are distinct after any sequence of bucket inserts.
C39_InsertRejectsDuplicates ==
  /\ (last.op = "insert" /\ fault = NoFault /\ Count(last.pre, Pair(last.key, "a")) > 0) =>
       bucket = last.pre
  /\ \A d \in BucketData : Count(bucket, d) <= 1

\* the iterator `it` names a node of its bucket in table t
NamesNode(t, it) ==
  /\ it.index_ \in DOMAIN t.table_.data_
  /\ it.bucket_it_ \in tl_slots(t.table_.data_[it.index_])

\* C40: table erase(iterator) removes exactly the referenced element, lowers
\* size by 1, and returns an iterator that references the element that
\* followed the erased one in iteration order (or end), with that element
\* still stored in the table; this holds for buckets in list regime and in
\* tree regime.
C40_EraseByIterator ==
  (last.op = "erase_iterator" /\ ~last.key2.end_) =>
    With(fh_increase(last.pre, last.key2), LAMBDA following :
      /\ fault = NoFault
      /\ fh_elements(table) = fh_elements(last.pre) \ {fh_iterator_deref(last.pre, last.key2)}
      /\ fh_size(table) = fh_size(last.pre) - 1
      /\ last.it.end_ = following.it.end_
      /\ ~last.it.end_ =>
           /\ NamesNode(table, last.it)
           /\ fh_iterator_deref(table, last.it) = fh_iterator_deref(last.pre, following.it)
           /\ fh_iterator_deref(table, last.it) \in fh_elements(table))

====
